---------------------------- MODULE Spec2Model ----------------------------
(***************************************************************************)
(* A model of the repository-analysis engine of audit_near: the dependency *)
(* graph and its centrality ranking (providers/dependency_analyzer.py),    *)
(* the file categorizer (providers/file_categorizer.py), the boilerplate   *)
(* classifier (providers/boilerplate_detector.py), the token-budgeted file *)
(* selection and truncation (categories/code_quality.py) and the           *)
(* orchestration (providers/repo_analyzer.py).                             *)
(*                                                                         *)
(* Text is modelled by TLA+ strings; Len, \o and SubSeq act on them as on  *)
(* Python strings (1-based).  A file is a record [path, content]; a        *)
(* content is the sequence of the pieces between its newlines, so that the *)
(* empty content is <<"">> (see Splitlines and JoinLines).  The selection  *)
(* of the code sample reads a content through its length only; there a    *)
(* file is a record [path, size].                                          *)
(* A Python dict is a sequence of entries in insertion order; a Python set *)
(* is a TLA+ set, and a loop over a set runs in an order chosen by the     *)
(* environment.                                                            *)
(***************************************************************************)
EXTENDS Integers, Sequences, FiniteSets, TLC

VARIABLES
    (* DependencyAnalyzer.analyze_dependencies *)
    dfiles,       \* the argument 'files': a list of files [path, content]
    gpc,          \* position in analyze_dependencies
    graph,        \* dict path -> set of paths, as a sequence of entries
    centrality,   \* dict path -> score, as a sequence of entries
    important,    \* list of paths, most central first
    (* FileCategorizer.categorize_files and
       BoilerplateDetector.get_file_classification on a list of files *)
    cfiles,       \* the list of files [path, content]
    labels,       \* labels[i]: the classification returned for cfiles[i]
    cpc,          \* "start", or "categorized" once categorize_files returned
    categories,   \* the dict categorize_files returns
    (* CodeQuality._select_code_sample on the files of a repository *)
    scode,         \* code_files: the list of code files [path, size]
    sgroups,       \* grouped_files: dict language -> list of files, as the selection updates it
    sample,        \* the files selected so far
    total_tokens,  \* the estimated tokens of the sample
    lang_tokens,   \* dict: language -> token budget
    next_lang,     \* the position in grouped_files the second pass has reached
    fallback,      \* whether the fallback filled the sample
    spc,           \* "keys", "allocate", "languages", "done"
    (* CodeQuality._truncate_sample, applied to a sample and to its results *)
    tsample,       \* the sample: a list of files [path, content]
    truncations,   \* how many times _truncate_sample has been applied
    (* RepoAnalyzer.analyze, run on the files of one repository *)
    afiles,        \* the files [path, content] repo_provider.get_files() yields
    apc,           \* the position of the current run in analyze()
    asteps,        \* the downstream steps the current run has executed
    acategorized,  \* categorized_files of the current run
    aimportant,    \* dependency_analysis['important_files'] of the current run
    areturned,     \* the results the runs have returned, oldest first
    aboilerplate,  \* boilerplate_analysis of the current run
    asummaries,    \* results['file_summaries'] of the current run
    (* BoilerplateDetector._detect_near_sdk and _detect_frameworks, as detect() calls them *)
    bfiles,        \* the argument 'files': a list of files [path, content]
    bpc,           \* "start", "near_sdk", "frameworks": the last step detect() has made
    near_sdk,      \* results['near_sdk']: dict SDK name -> result
    frameworks,    \* results['frameworks']: dict framework name -> result
    (* CodeQuality._extract_results on the response of the scorer *)
    xanalysis,     \* the argument 'analysis': a dict, as a sequence of entries
    xmax_points,   \* self.max_points
    xpc,           \* "start", "done"
    xresult,       \* what the call returned, or the exception it raised
    (* CategoryRegistry, and the plugin files CategoryPluginLoader works on *)
    rcategories,   \* registry._categories: dict category id -> class
    rmetadata,     \* registry._category_metadata: dict category id -> metadata
    rresult,       \* the last call: [op, id, class, value]
    ptomls,        \* the plugin files on disk: [dir, filename, id, prompt_file]
    pprompts       \* the prompt files on disk: [dir, filename]

gvars == <<dfiles, gpc, graph, centrality, important>>
fvars == <<cfiles, labels, cpc, categories>>

svars == <<scode, sgroups, sample, total_tokens, lang_tokens, next_lang, fallback, spc>>

tvars == <<tsample, truncations>>

avars == <<afiles, apc, asteps, acategorized, aimportant, areturned, aboilerplate, asummaries>>

bvars == <<bfiles, bpc, near_sdk, frameworks>>

xvars == <<xanalysis, xmax_points, xpc, xresult>>

pvars == <<rcategories, rmetadata, rresult, ptomls, pprompts>>

vars == <<gvars, fvars, svars, tvars, avars, bvars, xvars, pvars>>

\* What the operations of one component leave alone: the other components.
notG == <<fvars, svars, tvars, avars, bvars, xvars, pvars>>
notF == <<gvars, svars, tvars, avars, bvars, xvars, pvars>>
notS == <<gvars, fvars, tvars, avars, bvars, xvars, pvars>>
notT == <<gvars, fvars, svars, avars, bvars, xvars, pvars>>
notA == <<gvars, fvars, svars, tvars, bvars, xvars, pvars>>
notB == <<gvars, fvars, svars, tvars, avars, xvars, pvars>>
notX == <<gvars, fvars, svars, tvars, avars, bvars, pvars>>
notP == <<gvars, fvars, svars, tvars, avars, bvars, xvars>>

-----------------------------------------------------------------------------
(* Strings *)

\* s[i:j] of Python for 0 <= i, i and j 0-based; j is clipped to len(s).
Slice(s, i, j) ==
    LET hi == IF j > Len(s) THEN Len(s) ELSE j
    IN  IF i >= hi THEN "" ELSE SubSeq(s, i + 1, hi)

\* s[i:i+1] of Python, i 0-based: the empty string beyond the end.
CharAt(s, i) == Slice(s, i, i + 1)

StartsWith(s, p) == Len(p) <= Len(s) /\ SubSeq(s, 1, Len(p)) = p

EndsWith(s, p) == Len(p) <= Len(s) /\ SubSeq(s, Len(s) - Len(p) + 1, Len(s)) = p

\* p in s
Contains(s, p) == \E i \in 0..(Len(s) - Len(p)) : Slice(s, i, i + Len(p)) = p

\* s.find(p, from): the least 0-based index >= from where p occurs, or -1.
Find(s, p, from) ==
    LET hits == {i \in from..(Len(s) - Len(p)) : Slice(s, i, i + Len(p)) = p}
    IN  IF hits = {} THEN -1 ELSE CHOOSE i \in hits : \A j \in hits : i <= j

\* s.rfind(p): the greatest 0-based index where p occurs, or -1.
RFind(s, p) ==
    LET hits == {i \in 0..(Len(s) - Len(p)) : Slice(s, i, i + Len(p)) = p}
    IN  IF hits = {} THEN -1 ELSE CHOOSE i \in hits : \A j \in hits : j <= i

UpperChars == <<"A","B","C","D","E","F","G","H","I","J","K","L","M",
                "N","O","P","Q","R","S","T","U","V","W","X","Y","Z">>
LowerChars == <<"a","b","c","d","e","f","g","h","i","j","k","l","m",
                "n","o","p","q","r","s","t","u","v","w","x","y","z">>

LowerChar(c) ==
    IF \E k \in 1..26 : UpperChars[k] = c
    THEN LowerChars[CHOOSE k \in 1..26 : UpperChars[k] = c]
    ELSE c

\* str.lower()
RECURSIVE Lower(_)
Lower(s) == IF s = "" THEN "" ELSE LowerChar(SubSeq(s, 1, 1)) \o Lower(SubSeq(s, 2, Len(s)))

Digits == <<"0", "1", "2", "3", "4", "5", "6", "7", "8", "9">>

\* str(n) of an int n >= 0, as an f-string formats it
RECURSIVE Decimal(_)
Decimal(n) == IF n < 10 THEN Digits[n + 1] ELSE Decimal(n \div 10) \o Digits[(n % 10) + 1]

-----------------------------------------------------------------------------
(* Sequences as Python lists and dicts *)

Range(q) == {q[i] : i \in 1..Len(q)}

RECURSIVE SeqSum(_)
SeqSum(q) == IF q = <<>> THEN 0 ELSE q[1] + SeqSum(Tail(q))

\* The sequences without repetition that enumerate the set S.
Orders(S) == {q \in [1..Cardinality(S) -> S] : \A i, j \in 1..Cardinality(S) : q[i] = q[j] => i = j}

\* The lists of at most n files of 'pool' with pairwise different paths.
FileLists(pool, n) ==
    UNION {{q \in [1..k -> pool] : \A i, j \in 1..k : q[i].path = q[j].path => i = j} : k \in 0..n}

\* dict: keys in insertion order, membership, lookup.
DictKeys(d) == [i \in 1..Len(d) |-> d[i].key]
HasKey(d, k) == \E i \in 1..Len(d) : d[i].key = k
DictGet(d, k) == d[CHOOSE i \in 1..Len(d) : d[i].key = k].val

\* d[k] = v: an existing key keeps its position, a new key is appended.
DictSet(d, k, v) ==
    IF HasKey(d, k)
    THEN [i \in 1..Len(d) |-> IF d[i].key = k THEN [key |-> k, val |-> v] ELSE d[i]]
    ELSE Append(d, [key |-> k, val |-> v])

-----------------------------------------------------------------------------
(* Text and paths: str and os.path (posixpath) *)

\* str.replace(a, b) for a one-character a
RECURSIVE Replace(_, _, _)
Replace(s, a, b) ==
    IF s = "" THEN ""
    ELSE (IF SubSeq(s, 1, 1) = a THEN b ELSE SubSeq(s, 1, 1)) \o Replace(SubSeq(s, 2, Len(s)), a, b)

\* str.split(sep) for a one-character sep: the pieces between the separators
RECURSIVE Split(_, _)
Split(s, sep) ==
    LET i == Find(s, sep, 0)
    IN  IF i = -1 THEN <<s>>
        ELSE <<Slice(s, 0, i)>> \o Split(Slice(s, i + 1, Len(s)), sep)

\* sep.join(parts)
RECURSIVE Join(_, _)
Join(parts, sep) ==
    IF parts = <<>> THEN ""
    ELSE IF Len(parts) = 1 THEN parts[1]
    ELSE parts[1] \o sep \o Join(Tail(parts), sep)

\* str.rstrip('/')
RECURSIVE RStripSlash(_)
RStripSlash(s) == IF EndsWith(s, "/") THEN RStripSlash(Slice(s, 0, Len(s) - 1)) ELSE s

\* str.strip() and its two halves, for blanks
RECURSIVE LStrip(_)
LStrip(s) == IF StartsWith(s, " ") THEN LStrip(Slice(s, 1, Len(s))) ELSE s
RECURSIVE RStrip(_)
RStrip(s) == IF EndsWith(s, " ") THEN RStrip(Slice(s, 0, Len(s) - 1)) ELSE s
Strip(s) == LStrip(RStrip(s))

\* os.path.basename
Basename(p) == Slice(p, RFind(p, "/") + 1, Len(p))

\* os.path.dirname
Dirname(p) ==
    LET head == Slice(p, 0, RFind(p, "/") + 1)
    IN  IF head # "" /\ RStripSlash(head) # "" THEN RStripSlash(head) ELSE head

\* genericpath._splitext: the last dot of the base name splits the path,
\* unless only dots precede it in the base name.
SplitextAt(p) ==
    LET sepIndex == RFind(p, "/")
        dotIndex == RFind(p, ".")
    IN  IF dotIndex > sepIndex
           /\ \E k \in (sepIndex + 1)..(dotIndex - 1) : CharAt(p, k) # "."
        THEN dotIndex ELSE Len(p)

\* os.path.splitext(p)[0] and os.path.splitext(p)[1]
SplitextRoot(p) == Slice(p, 0, SplitextAt(p))
SplitextExt(p) == Slice(p, SplitextAt(p), Len(p))

\* The lower-cased extension of a path: os.path.splitext(file_path)[1].lower()
FileExt(file_path) == Lower(SplitextExt(file_path))

\* os.path.join(a, b)
PathJoin(a, b) ==
    IF StartsWith(b, "/") THEN b
    ELSE IF a = "" \/ EndsWith(a, "/") THEN a \o b
    ELSE a \o "/" \o b

\* The loop of posixpath.normpath over the components of the path.
RECURSIVE NormComps(_, _, _)
NormComps(comps, new, rooted) ==
    IF comps = <<>> THEN new
    ELSE LET comp == Head(comps)
         IN  IF comp \in {"", "."} THEN NormComps(Tail(comps), new, rooted)
             ELSE IF \/ comp # ".."
                     \/ (~rooted /\ new = <<>>)
                     \/ (new # <<>> /\ new[Len(new)] = "..")
                  THEN NormComps(Tail(comps), Append(new, comp), rooted)
             ELSE IF new # <<>>
                  THEN NormComps(Tail(comps), SubSeq(new, 1, Len(new) - 1), rooted)
             ELSE NormComps(Tail(comps), new, rooted)

\* os.path.normpath
Normpath(p) ==
    IF p = "" THEN "."
    ELSE LET slashes == IF ~StartsWith(p, "/") THEN ""
                        ELSE IF StartsWith(p, "//") /\ ~StartsWith(p, "///") THEN "//"
                        ELSE "/"
             body == slashes \o Join(NormComps(Split(p, "/"), <<>>, slashes # ""), "/")
         IN  IF body = "" THEN "." ELSE body

-----------------------------------------------------------------------------
(* Patterns: re.search                                                     *)
(*                                                                         *)
(* A pattern is a sequence of atoms with '.*' between them, an atom being  *)
(* the set of the literal texts it matches: contract[s]?/ is               *)
(* <<{"contract/", "contracts/"}>> and import.*near-api-js is              *)
(* <<{"import"}, {"near-api-js"}>>.  '.' matches no line break, so a       *)
(* pattern is searched in one line at a time.                              *)

Lit(text) == <<{text}>>

\* The least position behind an occurrence of one of 'alts' that starts at
\* 'from' or later; -1 if there is none.
EarliestEnd(line, alts, from) ==
    LET ends == {i + Len(a) : <<i, a>> \in
                    {<<i, a>> \in (from..Len(line)) \X alts : Slice(line, i, i + Len(a)) = a}}
    IN  IF ends = {} THEN -1 ELSE CHOOSE e \in ends : \A f \in ends : e <= f

RECURSIVE SearchFrom(_, _, _)
SearchFrom(pattern, line, from) ==
    \/ pattern = <<>>
    \/ LET e == EarliestEnd(line, Head(pattern), from)
       IN  e # -1 /\ SearchFrom(Tail(pattern), line, e)

\* re.search(pattern, line) is not None, for a text of one line
Search(pattern, line) == SearchFrom(pattern, line, 0)

\* any(re.search(pattern, file_path) for pattern in patterns)
AnySearch(patterns, line) == \E k \in 1..Len(patterns) : Search(patterns[k], line)

\* any(re.search(pattern, content) for pattern in patterns)
AnySearchContent(patterns, content) == \E i \in 1..Len(content) : AnySearch(patterns, content[i])

-----------------------------------------------------------------------------
(* FileCategorizer *)

\* The rule sets of _init_category_patterns.  A key a rule set does not
\* define is the empty list or set here: _matches_category skips such a key.
near_integration_patterns ==
    [extensions |-> {".js", ".ts", ".jsx", ".tsx", ".rs", ".py", ".wasm"},
     path_patterns |-> <<<<{"contract/", "contracts/"}>>, Lit("near"), Lit("blockchain"),
                         Lit("wallet"), Lit("token")>>,
     content_patterns |-> <<<<{"import"}, {"near-api-js"}>>,
                            <<{"import"}, {"from 'near-", "from \"near-"}>>,
                            Lit("new near."),
                            <<{".connect("}, {"'near", "\"near"}, {"')", "\")"}>>,
                            Lit(".accountId"), Lit(".createTransaction"), Lit(".functionCall"),
                            Lit(".viewFunction"), Lit("use near_sdk"), Lit("#[near("),
                            <<{"#[derive("}, {"Near"}>>, Lit("import near"), Lit("from near")>>,
     filenames |-> {"near.config.js", "near.config.ts"},
     exclude_patterns |-> <<>>]

onchain_quality_patterns ==
    [extensions |-> {".rs", ".js", ".ts", ".wasm"},
     path_patterns |-> <<<<{"contract/", "contracts/"}>>, <<{"near"}, {"contract"}>>,
                         Lit("blockchain")>>,
     content_patterns |-> <<Lit("#[near("), Lit("#[payable]"), Lit("Contract"), Lit("transfer"),
                            Lit("balance_of"), Lit("assert!"), Lit("require("), Lit("state"),
                            Lit(".signAndSendTransaction"), Lit(".functionCall"),
                            Lit(".sendTokens"), Lit(".stake")>>,
     filenames |-> {"contract.rs", "contract.ts", "contract.js"},
     exclude_patterns |-> <<>>]

offchain_quality_patterns ==
    [extensions |-> {".js", ".ts", ".jsx", ".tsx", ".py", ".html", ".css", ".vue", ".svelte"},
     path_patterns |-> <<Lit("src/"), Lit("pages/"), Lit("components/"), Lit("api/"),
                         Lit("backend/"), Lit("frontend/"), Lit("ui/"), Lit("views/"),
                         Lit("hooks/"), Lit("utils/"), Lit("services/")>>,
     content_patterns |-> <<Lit("import React"), Lit("import Vue"), Lit("import Angular"),
                            <<{"import"}, {"svelte"}>>, <<{"import"}, {"next"}>>,
                            <<{"import"}, {"nuxt"}>>, Lit("import express"),
                            Lit("import fastify"), Lit("import nestjs"), Lit("import flask"),
                            Lit("import django"), Lit("import fastapi"), Lit("fetch("),
                            Lit("axios."), Lit(".get("), Lit(".post("), Lit("api."),
                            Lit("router."), Lit("app.use("), Lit("app.get("), Lit("app.post(")>>,
     filenames |-> {},
     exclude_patterns |-> <<<<{"contract/", "contracts/"}>>, Lit("node_modules/"),
                            Lit(".test."), Lit(".spec.")>>]

code_quality_documentation_patterns ==
    [extensions |-> {".js", ".ts", ".jsx", ".tsx", ".py", ".rs", ".go", ".java", ".c", ".cpp",
                     ".cs", ".html", ".css", ".scss", ".sass", ".less",
                     ".md", ".rst", ".txt", ".adoc", ".wiki", ".ipynb"},
     path_patterns |-> <<Lit("src/"), <<{"doc/", "docs/"}>>, Lit("wiki/"),
                         <<{"example/", "examples/"}>>, <<{"tutorial/", "tutorials/"}>>>>,
     content_patterns |-> <<>>,
     filenames |-> {"README.md", "CONTRIBUTING.md", "CHANGELOG.md", "LICENSE",
                    "CODE_OF_CONDUCT.md", "SECURITY.md", "api.md", "architecture.md",
                    "design.md"},
     exclude_patterns |-> <<>>]

technical_innovation_patterns ==
    [extensions |-> {".js", ".ts", ".jsx", ".tsx", ".py", ".rs", ".go", ".wasm"},
     path_patterns |-> <<Lit("src/core/"), Lit("src/lib/"), Lit("lib/"), Lit("algorithm/"),
                         Lit("engine/"), Lit("core/")>>,
     content_patterns |-> <<>>,
     filenames |-> {},
     exclude_patterns |-> <<Lit(".test."), Lit(".spec."), Lit("test/"), Lit("tests/"),
                            Lit("__tests__/")>>]

\* _matches_category without its test of the extension.
MatchesCategoryAnyExt(file_path, file_name, file_ext, content, patterns) ==
    \/ AnySearch(patterns.path_patterns, file_path)
    \/ AnySearchContent(patterns.content_patterns, content)
    \/ file_name \in patterns.filenames

\* _matches_category
MatchesCategory(file_path, file_name, file_ext, content, patterns) ==
    \/ /\ file_ext \in patterns.extensions
       /\ \/ AnySearch(patterns.path_patterns, file_path)
          \/ AnySearchContent(patterns.content_patterns, content)
    \/ file_name \in patterns.filenames

\* The five categories categorize_files fills through _matches_category, each
\* with the rule set it passes.
RuleCategories ==
    [near_protocol_integration |-> near_integration_patterns,
     onchain_quality |-> onchain_quality_patterns,
     offchain_quality |-> offchain_quality_patterns,
     code_quality_documentation |-> code_quality_documentation_patterns,
     technical_innovation |-> technical_innovation_patterns]

\* categorize_files without its exclusion test.
NotExcludedEver(file_path, patterns) == TRUE

\* The exclusion test of categorize_files: no exclude pattern is found in
\* the path.
NotExcluded(file_path, patterns) == ~AnySearch(patterns.exclude_patterns, file_path)

\* Whether categorize_files appends the file to the list of a rule-based
\* category; only offchain_quality and technical_innovation test their
\* exclude patterns (the other rule sets define none).
InCategory(file, patterns) ==
    /\ MatchesCategory(file.path, Basename(file.path), FileExt(file.path), file.content, patterns)
    /\ NotExcluded(file.path, patterns)

\* re.search(r'docs?/.*\.(md|rst|txt)$', file_path, re.IGNORECASE)
DocsPathSearch(file_path) ==
    LET p == Lower(file_path)
        e == EarliestEnd(p, {"doc/", "docs/"}, 0)
    IN  e # -1 /\ \E x \in {".md", ".rst", ".txt"} : EndsWith(p, x) /\ e <= Len(p) - Len(x)

\* The special case of categorize_files for grant_impact_ecosystem_fit.
InGrantImpact(file) ==
    \/ Lower(Basename(file.path)) \in
           {"readme.md", "design.md", "architecture.md", "overview.md", "vision.md"}
    \/ DocsPathSearch(file.path)

\* categorize_files
CategorizeFiles(fs) ==
    [near_protocol_integration |-> SelectSeq(fs, LAMBDA f : InCategory(f, near_integration_patterns)),
     onchain_quality |-> SelectSeq(fs, LAMBDA f : InCategory(f, onchain_quality_patterns)),
     offchain_quality |-> SelectSeq(fs, LAMBDA f : InCategory(f, offchain_quality_patterns)),
     code_quality_documentation |->
         SelectSeq(fs, LAMBDA f : InCategory(f, code_quality_documentation_patterns)),
     technical_innovation |-> SelectSeq(fs, LAMBDA f : InCategory(f, technical_innovation_patterns)),
     team_activity_project_maturity |-> fs,
     grant_impact_ecosystem_fit |-> SelectSeq(fs, InGrantImpact)]

-----------------------------------------------------------------------------
(* BoilerplateDetector: the classification of one file *)

boilerplate_file_patterns ==
    <<Lit("src/serviceWorker.js"), Lit("src/setupTests.js"), Lit("src/reportWebVitals.js"),
      Lit("tsconfig.json"), Lit("babel.config.js"), Lit("jest.config.js"),
      Lit("webpack.config.js"), Lit(".eslintrc.js"), Lit(".prettierrc"),
      Lit("CONTRIBUTING.md"), Lit("CODE_OF_CONDUCT.md")>>

boilerplate_content_patterns ==
    <<Lit("This code was generated by create-react-app"), Lit("This file is auto-generated"),
      Lit("// @generated"), Lit("# Code of Conduct"), Lit("# Contributing"),
      Lit("MIT License"), Lit("Apache License"), Lit("\"compilerOptions\":")>>

third_party_dir_patterns ==
    <<Lit("node_modules/"), Lit("vendor/"), <<{"third_party/", "third-party/"}>>,
      Lit("external/"), Lit("lib/"), Lit("libs/"), Lit("packages/"), Lit("dist/"),
      Lit("build/")>>

\* is_boilerplate_file
IsBoilerplateFile(file_path, content) ==
    \/ AnySearch(boilerplate_file_patterns, file_path)
    \/ AnySearchContent(boilerplate_content_patterns, content)

\* is_third_party_file
IsThirdPartyFile(file_path) == AnySearch(third_party_dir_patterns, file_path)

\* get_file_classification with the two tests in the other order.
GetFileClassificationThirdPartyFirst(file_path, content) ==
    IF IsThirdPartyFile(file_path) THEN "third-party"
    ELSE IF IsBoilerplateFile(file_path, content) THEN "boilerplate"
    ELSE "custom"

\* get_file_classification
GetFileClassification(file_path, content) ==
    IF IsBoilerplateFile(file_path, content) THEN "boilerplate"
    ELSE IF IsThirdPartyFile(file_path) THEN "third-party"
    ELSE "custom"

-----------------------------------------------------------------------------
(* The categorizer and the classifier on lists of files *)

\* The files handed to categorize_files and get_file_classification.
ClassPool ==
    {[path |-> "src/App.js", content |-> <<"import React from 'react'", "fetch('/api')">>],
     [path |-> "node_modules/x/tsconfig.json", content |-> <<"{ \"compilerOptions\": {} }">>],
     [path |-> "node_modules/react/index.js", content |-> <<"module.exports = require('./cjs')">>],
     [path |-> "LICENSE", content |-> <<"MIT License">>],
     [path |-> "contract.rs", content |-> <<"#[near(">>],
     [path |-> "notes.txt", content |-> <<"use near_sdk">>],
     [path |-> "src/core/engine.test.js", content |-> <<"">>],
     [path |-> "docs/design.md", content |-> <<"# Design">>],
     [path |-> "lib/util.py", content |-> <<"import flask">>],
     [path |-> "assets/blockchain.png", content |-> <<"Contract state">>],
     [path |-> "README.md", content |-> <<"# Contributing">>],
     [path |-> "contracts/lib/client.js", content |-> <<"fetch('/api')">>]}

\* The largest number of files in one list.
MaxClassFiles == 2

\* The dict 'categories' as categorize_files creates it, for the files fs.
EmptyCategories(fs) ==
    [near_protocol_integration |-> <<>>, onchain_quality |-> <<>>, offchain_quality |-> <<>>,
     code_quality_documentation |-> <<>>, technical_innovation |-> <<>>,
     team_activity_project_maturity |-> fs, grant_impact_ecosystem_fit |-> <<>>]

FIdle == cfiles = <<>> /\ labels = <<>> /\ cpc = "idle" /\ categories = EmptyCategories(<<>>)

FInit ==
    /\ cfiles \in FileLists(ClassPool, MaxClassFiles)
    /\ labels = [i \in 1..Len(cfiles) |-> "unset"]
    /\ cpc = "start"
    /\ categories = EmptyCategories(cfiles)

\* labels[i] = get_file_classification(path, content) of the i-th file
FClassify(i) ==
    /\ labels[i] = "unset"
    /\ labels' = [labels EXCEPT ![i] = GetFileClassification(cfiles[i].path, cfiles[i].content)]
    /\ UNCHANGED <<cfiles, cpc, categories, notF>>

\* categories = categorize_files(files)
FCategorize ==
    /\ cpc = "start"
    /\ categories' = CategorizeFiles(cfiles)
    /\ cpc' = "categorized"
    /\ UNCHANGED <<cfiles, labels, notF>>

FNext == (\E i \in 1..Len(cfiles) : FClassify(i)) \/ FCategorize

-----------------------------------------------------------------------------
(* DependencyAnalyzer: import statements                                   *)
(*                                                                         *)
(* The regular expressions of import_patterns are matched line by line:    *)
(* the lines of a content hold blanks as their only white space, and no    *)
(* statement is continued on the next line.                                *)

WordChars ==
    Range(UpperChars) \cup Range(LowerChars)
        \cup {"0", "1", "2", "3", "4", "5", "6", "7", "8", "9", "_"}

Quotes == {"'", "\""}

\* \s* from position i: the position of the first character that is no blank
RECURSIVE SkipBlanks(_, _)
SkipBlanks(s, i) == IF CharAt(s, i) = " " THEN SkipBlanks(s, i + 1) ELSE i

\* \w* from position i: the position behind the run of word characters
RECURSIVE WordEnd(_, _)
WordEnd(s, i) == IF CharAt(s, i) \in WordChars THEN WordEnd(s, i + 1) ELSE i

\* \w+(?:SEP\w+)* from position i (a word character): the position behind it
RECURSIVE DottedEnd(_, _, _)
DottedEnd(s, i, sep) ==
    LET e == WordEnd(s, i)
    IN  IF Slice(s, e, e + Len(sep)) = sep /\ CharAt(s, e + Len(sep)) \in WordChars
        THEN DottedEnd(s, e + Len(sep), sep)
        ELSE e

\* ^\s*KEYWORD\s+(\w+(?:SEP\w+)*) on one line: the captures (none or one)
KeywordCaps(line, keyword, sep) ==
    LET i == SkipBlanks(line, 0)
        j == SkipBlanks(line, i + Len(keyword))
    IN  IF /\ Slice(line, i, i + Len(keyword)) = keyword
           /\ j > i + Len(keyword)
           /\ CharAt(line, j) \in WordChars
        THEN {Slice(line, j, DottedEnd(line, j, sep))}
        ELSE {}

\* ^\s*from\s+(\w+(?:\.\w+)*)\s+import
PyFromCaps(line) ==
    LET i == SkipBlanks(line, 0)
        j == SkipBlanks(line, i + 4)
        e == DottedEnd(line, j, ".")
        k == SkipBlanks(line, e)
    IN  IF /\ Slice(line, i, i + 4) = "from"
           /\ j > i + 4
           /\ CharAt(line, j) \in WordChars
           /\ k > e
           /\ Slice(line, k, k + 6) = "import"
        THEN {Slice(line, j, e)}
        ELSE {}

\* ^\s*extern\s+crate\s+(\w+)
RsExternCaps(line) ==
    LET i == SkipBlanks(line, 0)
        j == SkipBlanks(line, i + 6)
        k == SkipBlanks(line, j + 5)
    IN  IF /\ Slice(line, i, i + 6) = "extern"
           /\ j > i + 6
           /\ Slice(line, j, j + 5) = "crate"
           /\ k > j + 5
           /\ CharAt(line, k) \in WordChars
        THEN {Slice(line, k, WordEnd(line, k))}
        ELSE {}

NoMatch == [end |-> -1, cap |-> ""]

\* ['"](.+?)['"] with the opening quote at position q: the least capture of
\* at least one character that a quote follows, 'tail' holding behind it.
QuotedAt(line, q, tail) ==
    LET ks == {k \in 1..(Len(line) - q) :
                  /\ CharAt(line, q + 1 + k) \in Quotes
                  /\ Slice(line, q + 2 + k, q + 2 + k + Len(tail)) = tail}
    IN  IF CharAt(line, q) \notin Quotes \/ ks = {} THEN NoMatch
        ELSE LET k == CHOOSE k \in ks : \A m \in ks : k <= m
             IN  [end |-> q + 2 + k + Len(tail), cap |-> Slice(line, q + 1, q + 1 + k)]

\* (?:import|export).*?from\s+['"](.+?)['"] with the match starting at i
JsFromAt(line, i) ==
    LET ms == {m \in (i + 6)..Len(line) :
                  /\ Slice(line, m, m + 4) = "from"
                  /\ SkipBlanks(line, m + 4) > m + 4
                  /\ QuotedAt(line, SkipBlanks(line, m + 4), "").end # -1}
    IN  IF Slice(line, i, i + 6) \notin {"import", "export"} \/ ms = {} THEN NoMatch
        ELSE LET m == CHOOSE m \in ms : \A n \in ms : m <= n
             IN  QuotedAt(line, SkipBlanks(line, m + 4), "")

\* require\(['"](.+?)['"]\) with the match starting at i
JsRequireAt(line, i) ==
    IF Slice(line, i, i + 8) = "require(" THEN QuotedAt(line, i + 8, ")") ELSE NoMatch

\* import\s+['"](.+?)['"]\s*;? with the match starting at i
JsImportAt(line, i) ==
    LET j == SkipBlanks(line, i + 6)
        m == QuotedAt(line, j, "")
        e == SkipBlanks(line, m.end)
    IN  IF Slice(line, i, i + 6) # "import" \/ j = i + 6 \/ m.end = -1 THEN NoMatch
        ELSE [end |-> IF CharAt(line, e) = ";" THEN e + 1 ELSE e, cap |-> m.cap]

\* re.finditer: the captures of the matches found from left to right, each
\* search starting where the previous match ended.
RECURSIVE JsCaps(_, _, _)
JsCaps(line, kind, pos) ==
    LET At(i) == CASE kind = "from" -> JsFromAt(line, i)
                   [] kind = "require" -> JsRequireAt(line, i)
                   [] OTHER -> JsImportAt(line, i)
        starts == {i \in pos..Len(line) : At(i).end # -1}
    IN  IF starts = {} THEN {}
        ELSE LET i == CHOOSE i \in starts : \A j \in starts : i <= j
             IN  {At(i).cap} \cup JsCaps(line, kind, At(i).end)

\* The captures of all patterns of import_patterns[file_ext] on one line.
LineCaps(line, file_ext) ==
    CASE file_ext \in {".js", ".jsx", ".ts", ".tsx"} ->
             JsCaps(line, "from", 0) \cup JsCaps(line, "require", 0) \cup JsCaps(line, "import", 0)
      [] file_ext = ".py" -> KeywordCaps(line, "import", ".") \cup PyFromCaps(line)
      [] file_ext = ".rs" -> KeywordCaps(line, "use", "::") \cup RsExternCaps(line)
      [] OTHER -> {}

-----------------------------------------------------------------------------
(* DependencyAnalyzer: the dependency graph *)

\* The keys of import_patterns: the extensions whose imports are read.
ImportExts == {".js", ".jsx", ".ts", ".tsx", ".py", ".rs"}

\* extension_to_language.get(file_ext)
Language(file_ext) ==
    CASE file_ext \in {".js", ".jsx"} -> "javascript"
      [] file_ext \in {".ts", ".tsx"} -> "typescript"
      [] file_ext = ".py" -> "python"
      [] file_ext = ".rs" -> "rust"
      [] OTHER -> "none"

PythonBuiltins ==
    {"os", "sys", "re", "math", "datetime", "time", "json", "logging", "unittest",
     "collections", "argparse", "pathlib", "typing", "io", "random", "functools",
     "itertools", "urllib", "http", "threading", "multiprocessing"}

NodeBuiltins ==
    {"fs", "path", "os", "http", "https", "net", "dns", "crypto", "stream", "util",
     "events", "child_process", "url", "querystring", "assert", "buffer", "cluster",
     "console", "constants", "dgram", "domain", "punycode", "readline", "repl",
     "string_decoder", "timers", "tls", "tty", "v8", "vm", "zlib"}

RustBuiltins == {"std", "core", "alloc", "test", "proc_macro"}

\* _is_builtin_module
IsBuiltinModule(module_name, file_ext) ==
    CASE Language(file_ext) = "python" -> Split(module_name, ".")[1] \in PythonBuiltins
      [] Language(file_ext) \in {"javascript", "typescript"} -> module_name \in NodeBuiltins
      [] Language(file_ext) = "rust" ->
             (IF Find(module_name, "::", 0) = -1 THEN module_name
              ELSE Slice(module_name, 0, Find(module_name, "::", 0))) \in RustBuiltins
      [] OTHER -> FALSE

\* match.group(1).strip() of every match of every pattern of the extension
ImportCaptures(content, file_ext) ==
    {Strip(c) : c \in UNION {LineCaps(content[i], file_ext) : i \in 1..Len(content)}}

\* _extract_imports without the test of _is_builtin_module.
ExtractImportsWithBuiltins(content, file_ext) == ImportCaptures(content, file_ext)

\* _extract_imports: the stripped captures of every line that are no
\* built-in modules.
ExtractImports(content, file_ext) ==
    {imported \in ImportCaptures(content, file_ext) : ~IsBuiltinModule(imported, file_ext)}

\* _extract_module_name
ExtractModuleName(file_path, file_ext) ==
    LET module_path == IF file_ext # "" THEN Slice(file_path, 0, Len(file_path) - Len(file_ext))
                       ELSE file_path
    IN  IF file_ext \in {".py", ".pyw"}
        THEN Replace(Replace(module_path, "/", "."), "\\", ".")
        ELSE module_path

\* file_by_module[module_name] = file_path, were the first file of a module
\* name to keep its entry.
SetModuleFirst(fbm, module_name, file_path) ==
    IF HasKey(fbm, module_name) THEN fbm ELSE DictSet(fbm, module_name, file_path)

\* file_by_module[module_name] = file_path
SetModule(fbm, module_name, file_path) == DictSet(fbm, module_name, file_path)

\* The first loop of _build_dependency_graph: file_by_module, a later file
\* replacing an earlier one with the same module name.
RECURSIVE FileByModule(_, _)
FileByModule(files, fbm) ==
    IF files = <<>> THEN fbm
    ELSE FileByModule(Tail(files),
                      SetModule(fbm, ExtractModuleName(Head(files).path, FileExt(Head(files).path)),
                                Head(files).path))

\* The first name of 'names' that is a key of file_by_module, as a
\* sequence of none or one.
FirstKey(names, fbm) ==
    LET hits == {i \in 1..Len(names) : HasKey(fbm, names[i])}
    IN  IF hits = {} THEN <<>> ELSE <<names[CHOOSE i \in hits : \A j \in hits : i <= j]>>

\* The names _resolve_import looks up for a relative import, in order.
RelativeCandidates(imported_module, importing_file) ==
    LET resolved_path == Normpath(PathJoin(Dirname(importing_file), imported_module))
    IN  <<resolved_path>>
        \o [i \in 1..6 |-> resolved_path \o <<".js", ".jsx", ".ts", ".tsx", ".py", ".rs">>[i]]
        \o [i \in 1..4 |-> PathJoin(resolved_path, "index" \o <<".js", ".jsx", ".ts", ".tsx">>[i])]

\* The names _resolve_import looks up for a dotted import, in order.
DottedCandidates(imported_module) ==
    LET path_form == Replace(imported_module, ".", "/")
    IN  <<path_form \o ".py", path_form \o "/__init__.py">>

\* The names _resolve_import looks up, in order.
ResolveCandidates(imported_module, importing_file) ==
    <<imported_module>>
    \o (IF StartsWith(imported_module, "./") \/ StartsWith(imported_module, "../")
        THEN RelativeCandidates(imported_module, importing_file) ELSE <<>>)
    \o (IF Contains(imported_module, ".") /\ ~StartsWith(imported_module, ".")
        THEN DottedCandidates(imported_module) ELSE <<>>)

\* _resolve_import: the path of the imported file, "" if there is none.
ResolveImport(imported_module, importing_file, fbm) ==
    LET hit == FirstKey(ResolveCandidates(imported_module, importing_file), fbm)
    IN  IF hit = <<>> THEN "" ELSE DictGet(fbm, hit[1])

\* ImportedFiles without the test 'if imported_file:'.
ImportedFilesUnchecked(file, fbm) ==
    {ResolveImport(m, file.path, fbm) : m \in ExtractImports(file.content, FileExt(file.path))}

\* The files the imports of one file resolve to.
ImportedFiles(file, fbm) ==
    {ResolveImport(m, file.path, fbm) : m \in ExtractImports(file.content, FileExt(file.path))} \ {""}

\* The second loop of _build_dependency_graph: a file gets a key with its
\* first resolved import.
RECURSIVE AddEdges(_, _, _)
AddEdges(files, fbm, g) ==
    IF files = <<>> THEN g
    ELSE LET file == Head(files)
             deps == IF FileExt(file.path) \in ImportExts THEN ImportedFiles(file, fbm) ELSE {}
         IN  AddEdges(Tail(files), fbm,
                      IF deps = {} THEN g
                      ELSE DictSet(g, file.path,
                                   (IF HasKey(g, file.path) THEN DictGet(g, file.path) ELSE {})
                                       \cup deps))

\* _build_dependency_graph
BuildDependencyGraph(files) == AddEdges(files, FileByModule(files, <<>>), <<>>)

\* The files analyze_dependencies is given are drawn from these.
DepPool ==
    {[path |-> "a.py", content |-> <<"import b">>],
     [path |-> "a.py", content |-> <<"import b", "import c">>],
     [path |-> "a.py", content |-> <<"import os", "import pkg.mod", "from a import x">>],
     [path |-> "b.py", content |-> <<"">>],
     [path |-> "c.py", content |-> <<"import missing">>],
     [path |-> "os.py", content |-> <<"">>],
     [path |-> "pkg/mod.py", content |-> <<"import b">>],
     [path |-> "pkg/mod/__init__.py", content |-> <<"">>],
     [path |-> "src/main.js", content |-> <<"import { u } from './utils'", "const fs = require('fs')">>],
     [path |-> "src/utils.js", content |-> <<"">>],
     [path |-> "src/utils.ts", content |-> <<"import '../src/main'">>],
     [path |-> "src/utils/index.js", content |-> <<"">>],
     [path |-> "README.md", content |-> <<"import b">>],
     [path |-> "lib.rs", content |-> <<"extern crate model;", "use std::io;">>],
     [path |-> "model.rs", content |-> <<"">>]}

\* The largest number of files in one list.
MaxDepFiles == 3

-----------------------------------------------------------------------------
(* DependencyAnalyzer: centrality and ranking *)

\* The paths that may occur in a graph handed to _calculate_centrality.
GraphNodes == {"a.py", "b.py", "c.py"}

\* The largest number of keys of such a graph.
MaxGraphKeys == 2

\* The graphs: every key once, each with a set of dependencies (a key of
\* a defaultdict(set) may hold the empty set).
Graphs ==
    UNION {{g \in [1..n -> [key : GraphNodes, val : SUBSET GraphNodes]] :
               \A i, j \in 1..n : g[i].key = g[j].key => i = j} : n \in 0..MaxGraphKeys}

\* sum(1 for deps in graph.values() if node in deps)
InDegree(g, node) == SeqSum([i \in 1..Len(g) |-> IF node \in g[i].val THEN 1 ELSE 0])

\* set(graph.keys()) updated with every dependency set
AllNodes(g) == Range(DictKeys(g)) \cup UNION {g[i].val : i \in 1..Len(g)}

\* KeyScore with the weight of the incoming edges dropped.
KeyScoreUnweighted(g, i) == InDegree(g, g[i].key) + Cardinality(g[i].val)

\* KeyScore with the outgoing edges counted against the node.
KeyScoreLessOut(g, i) == InDegree(g, g[i].key) * 2 - Cardinality(g[i].val)

\* The score of a graph key: in_degree * 2 + out_degree
KeyScore(g, i) == InDegree(g, g[i].key) * 2 + Cardinality(g[i].val)

\* TargetScore with the weight of the incoming edges dropped.
TargetScoreUnweighted(g, node) == InDegree(g, node)

\* The score of a node that is only a target: in_degree * 2
TargetScore(g, node) == InDegree(g, node) * 2

\* The loop 'for node in graph' of _calculate_centrality.
RECURSIVE ScoreKeys(_, _, _)
ScoreKeys(g, i, c) ==
    IF i > Len(g) THEN c
    ELSE ScoreKeys(g, i + 1, DictSet(c, g[i].key, KeyScore(g, i)))

\* The loop 'for node in all_nodes', all_nodes visited in the order 'order'.
RECURSIVE ScoreTargets(_, _, _)
ScoreTargets(g, order, c) ==
    IF order = <<>> THEN c
    ELSE ScoreTargets(g, Tail(order),
                      IF HasKey(c, Head(order)) THEN c
                      ELSE DictSet(c, Head(order), TargetScore(g, Head(order))))

\* _calculate_centrality, the set all_nodes iterated in the order 'order'.
CalculateCentrality(g, order) == ScoreTargets(g, order, ScoreKeys(g, 1, <<>>))

\* InsertDesc without reverse=True: 'e' goes behind every entry whose score
\* is at most its own.
InsertAsc(sorted, e) ==
    LET k == Cardinality({i \in 1..Len(sorted) : sorted[i].val <= e.val})
    IN  SubSeq(sorted, 1, k) \o <<e>> \o SubSeq(sorted, k + 1, Len(sorted))

\* One step of a stable descending sort: 'e' goes behind every entry whose
\* score is at least its own.
InsertDesc(sorted, e) ==
    LET k == Cardinality({i \in 1..Len(sorted) : sorted[i].val >= e.val})
    IN  SubSeq(sorted, 1, k) \o <<e>> \o SubSeq(sorted, k + 1, Len(sorted))

\* sorted(centrality.items(), key=lambda x: x[1], reverse=True)
RECURSIVE SortedDesc(_, _)
SortedDesc(items, acc) ==
    IF items = <<>> THEN acc ELSE SortedDesc(Tail(items), InsertDesc(acc, Head(items)))

\* _identify_important_files
IdentifyImportantFiles(c) == DictKeys(SortedDesc(c, <<>>))

GIdle == dfiles = <<>> /\ gpc = "idle" /\ graph = <<>> /\ centrality = <<>> /\ important = <<>>

\* _calculate_centrality is entered with any graph.
GInit == dfiles = <<>> /\ gpc = "graph" /\ graph \in Graphs /\ centrality = <<>> /\ important = <<>>

\* analyze_dependencies is entered with a list of files.
DInit == dfiles \in FileLists(DepPool, MaxDepFiles) /\ gpc = "files" /\ graph = <<>> /\ centrality = <<>> /\ important = <<>>

\* graph = self._build_dependency_graph(files)
DBuild ==
    /\ gpc = "files"
    /\ graph' = BuildDependencyGraph(dfiles)
    /\ gpc' = "graph"
    /\ UNCHANGED <<dfiles, centrality, important, notG>>

\* centrality = self._calculate_centrality(graph)
GCentrality ==
    /\ gpc = "graph"
    /\ \E order \in Orders(AllNodes(graph)) :
           centrality' = CalculateCentrality(graph, order)
    /\ gpc' = "scored"
    /\ UNCHANGED <<dfiles, graph, important, notG>>

\* important_files = self._identify_important_files(centrality)
GRank ==
    /\ gpc = "scored"
    /\ important' = IdentifyImportantFiles(centrality)
    /\ gpc' = "ranked"
    /\ UNCHANGED <<dfiles, graph, centrality, notG>>

GNext == GCentrality \/ GRank

DNext == DBuild \/ GCentrality \/ GRank

\* The nodes whose dependency set contains 'node'.
Importers(g, node) == {i \in 1..Len(g) : node \in g[i].val}

\* The dependency set of 'node', empty for a node that is no key.
OwnDeps(g, node) == IF HasKey(g, node) THEN DictGet(g, node) ELSE {}

\* C3: once _calculate_centrality has run, the score mapping has exactly
\* one entry for every node that is a graph key or an edge target, and the
\* entry is 2 x (number of nodes that depend on it) + (size of its own
\* dependency set); a target-only node therefore gets 2 x in-degree, and a
\* self-loop counts on both sides.
C3_CentralityScore ==
    gpc \in {"scored", "ranked"} =>
        /\ Range(DictKeys(centrality)) = AllNodes(graph)
        /\ Len(centrality) = Cardinality(AllNodes(graph))
        /\ \A n \in AllNodes(graph) :
               DictGet(centrality, n) =
                   2 * Cardinality(Importers(graph, n)) + Cardinality(OwnDeps(graph, n))

\* A scored graph with a self-loop on a key and a node that is only a target.
C3_Witness ==
    /\ gpc = "scored"
    /\ \E i \in 1..Len(graph) : graph[i].key \in graph[i].val
    /\ \E n \in AllNodes(graph) : ~HasKey(graph, n) /\ DictGet(centrality, n) = 2

\* C10: the list of _identify_important_files holds every scored node
\* exactly once and no node precedes a node with a strictly higher score.
C10_RankedDescending ==
    gpc = "ranked" =>
        /\ Len(important) = Len(centrality)
        /\ Range(important) = Range(DictKeys(centrality))
        /\ \A i, j \in 1..Len(important) :
               i < j => DictGet(centrality, important[i]) >= DictGet(centrality, important[j])

\* A ranking that had to move an entry: the scores were not in order.
C10_Witness ==
    /\ gpc = "ranked"
    /\ Len(important) >= 3
    /\ important # DictKeys(centrality)
    /\ \E i, j \in 1..Len(centrality) : centrality[i].val # centrality[j].val

\* The paths of a list of files.
Paths(fs) == {fs[i].path : i \in 1..Len(fs)}

\* The imports of the i-th file that _resolve_import cannot resolve.
Unresolved(fs, i) ==
    {m \in ExtractImports(fs[i].content, FileExt(fs[i].path)) :
        ResolveImport(m, fs[i].path, FileByModule(fs, <<>>)) = ""}

\* C2: every key of the built graph and every edge target is the path of
\* an input file; an import that is not resolved adds neither an edge nor a
\* node (in particular not the empty path _resolve_import returns for it).
C2_GraphNodesAreInputFiles ==
    gpc # "files" =>
        \A i \in 1..Len(graph) :
            /\ graph[i].key \in Paths(dfiles)
            /\ graph[i].val \subseteq Paths(dfiles)

\* A built graph with an edge, from a list where an import of a supported
\* file is not resolved.
C2_Witness ==
    /\ gpc = "graph"
    /\ graph # <<>>
    /\ \E i \in 1..Len(dfiles) : FileExt(dfiles[i].path) \in ImportExts /\ Unresolved(dfiles, i) # {}

\* The files of scenario A.
ScenarioA ==
    <<[path |-> "a.py", content |-> <<"import b">>], [path |-> "b.py", content |-> <<"">>]>>

\* C13: for the files [('a.py', 'import b'), ('b.py', '')],
\* analyze_dependencies builds the graph {a.py: {b.py}}, in which b.py is no
\* key, the centrality scores a.py = 1 and b.py = 2, and the important files
\* [b.py, a.py].
C13_ScenarioA ==
    dfiles = ScenarioA =>
        /\ gpc \in {"graph", "scored", "ranked"} =>
               graph = <<[key |-> "a.py", val |-> {"b.py"}]>>
        /\ gpc \in {"scored", "ranked"} =>
               /\ Range(DictKeys(centrality)) = {"a.py", "b.py"}
               /\ Len(centrality) = 2
               /\ DictGet(centrality, "a.py") = 1
               /\ DictGet(centrality, "b.py") = 2
        /\ gpc = "ranked" => important = <<"b.py", "a.py">>

\* analyze_dependencies has returned for the files of scenario A.
C13_Witness == dfiles = ScenarioA /\ gpc = "ranked" /\ Len(important) = 2

\* The captures of the i-th file that _is_builtin_module recognises, and
\* those it does not.
BuiltinCaptures(fs, i) ==
    {m \in ImportCaptures(fs[i].content, FileExt(fs[i].path)) :
        IsBuiltinModule(m, FileExt(fs[i].path))}

OtherCaptures(fs, i) ==
    ImportCaptures(fs[i].content, FileExt(fs[i].path)) \ BuiltinCaptures(fs, i)

\* The file an import of the i-th file resolves to, "" if none.
Resolved(fs, i, m) == ResolveImport(m, fs[i].path, FileByModule(fs, <<>>))

\* C11: in the graph _build_dependency_graph has built, an import that
\* _is_builtin_module recognises produces no edge: the file it would
\* resolve to, a repository file of that module name, is a dependency of the
\* importing file only if another import of the file, not a built-in one,
\* resolves to it.
C11_BuiltinImportsMakeNoEdge ==
    gpc \in {"graph", "scored", "ranked"} /\ dfiles # <<>> =>
        \A i \in 1..Len(dfiles) : \A m \in BuiltinCaptures(dfiles, i) :
            Resolved(dfiles, i, m) \in OwnDeps(graph, dfiles[i].path) =>
                \E o \in OtherCaptures(dfiles, i) : Resolved(dfiles, i, o) = Resolved(dfiles, i, m)

\* The graph is built from files of which one imports a built-in module
\* whose name is the module name of another file, and has edges from the
\* importing file, none of them to that file.
C11_Witness ==
    /\ gpc = "graph"
    /\ \E i \in 1..Len(dfiles) : \E m \in BuiltinCaptures(dfiles, i) :
           /\ Resolved(dfiles, i, m) # ""
           /\ OwnDeps(graph, dfiles[i].path) # {}
           /\ Resolved(dfiles, i, m) \notin OwnDeps(graph, dfiles[i].path)

-----------------------------------------------------------------------------
(* CodeQuality: the selection of the code sample.  A file is [path, size],
   size being len(content): the selection reads the content of a file
   through len() only, and compares files as (path, content) pairs. *)

\* TOKENS_PER_CHAR, in hundredths of a token.
TokensPerChar(lang) ==
    CASE lang \in {"js", "jsx", "ts", "tsx", "c"} -> 30
      [] lang \in {"rs", "sol", "cpp", "java"} -> 35
      [] lang = "go" -> 28
      [] OTHER -> 25

MAX_TOKENS == 80000

\* int(len(content) * self.TOKENS_PER_CHAR.get(lang, self.TOKENS_PER_CHAR["default"]))
EstimateTokens(size, lang) == (size * TokensPerChar(lang)) \div 100

\* _group_files_by_language: a file without extension joins no group.
RECURSIVE GroupFilesByLanguage(_)
GroupFilesByLanguage(code_files) ==
    IF code_files = <<>> THEN <<>>
    ELSE LET n == Len(code_files)
             grouped == GroupFilesByLanguage(SubSeq(code_files, 1, n - 1))
             ext == FileExt(code_files[n].path)
             lang == Slice(ext, 1, Len(ext))
         IN  IF ext = "" THEN grouped
             ELSE DictSet(grouped, lang,
                          Append(IF HasKey(grouped, lang) THEN DictGet(grouped, lang) ELSE <<>>,
                                 code_files[n]))

key_file_patterns ==
    {"main", "index", "app", "server", "client", "core", "api", "model", "view", "controller",
     "component", "service", "utils", "helpers", "config", "settings", "constants", "types",
     "database", "storage", "auth", "user", "admin", "provider", "context", "hook", "state",
     "router", "route", "navigation", "validator", "parser", "formatter", "renderer"}

\* any(pattern in name_without_ext for pattern in key_file_patterns)
IsKeyFile(path) ==
    LET name_without_ext == Lower(SplitextRoot(Basename(path)))
    IN  \E pattern \in key_file_patterns : Contains(name_without_ext, pattern)

\* key_files as the first loop of _select_code_sample leaves it: the key
\* files (path, content, lang) of every group, in the order of the dict and
\* of the lists.
RECURSIVE KeyFiles(_)
KeyFiles(grouped_files) ==
    IF grouped_files = <<>> THEN <<>>
    ELSE LET g == Head(grouped_files)
         IN  [i \in 1..Len(SelectSeq(g.val, LAMBDA f : IsKeyFile(f.path))) |->
                 [path |-> SelectSeq(g.val, LAMBDA f : IsKeyFile(f.path))[i].path,
                  size |-> SelectSeq(g.val, LAMBDA f : IsKeyFile(f.path))[i].size,
                  lang |-> g.key]]
             \o KeyFiles(Tail(grouped_files))

\* list.sort / sorted by len(content): the sort is stable, also with
\* reverse=True.
RECURSIVE InsertBySize(_, _, _)
InsertBySize(sorted, x, reverse) ==
    IF sorted = <<>> THEN <<x>>
    ELSE IF (IF reverse THEN Head(sorted).size >= x.size ELSE Head(sorted).size <= x.size)
         THEN <<Head(sorted)>> \o InsertBySize(Tail(sorted), x, reverse)
         ELSE <<x>> \o sorted

RECURSIVE SortBySize(_, _)
SortBySize(q, reverse) ==
    IF q = <<>> THEN <<>>
    ELSE InsertBySize(SortBySize(SubSeq(q, 1, Len(q) - 1), reverse), q[Len(q)], reverse)

\* The loop over key_files[:5].  st is [sample, total_tokens, grouped_files].
RECURSIVE AddKeyFiles(_, _)
AddKeyFiles(key_files, st) ==
    IF key_files = <<>> THEN st
    ELSE LET k == Head(key_files)
             tokens == EstimateTokens(k.size, k.lang)
         IN  AddKeyFiles(Tail(key_files),
                 IF st.total_tokens + tokens <= MAX_TOKENS
                 THEN [sample |-> Append(st.sample, [path |-> k.path, size |-> k.size]),
                       total_tokens |-> st.total_tokens + tokens,
                       grouped_files |->
                           DictSet(st.grouped_files, k.lang,
                                   SelectSeq(DictGet(st.grouped_files, k.lang),
                                             LAMBDA f : f.path # k.path))]
                 ELSE st)

\* The first pass of _select_code_sample: the five largest key files.
KeyFilePass(grouped_files) ==
    LET key_files == SortBySize(KeyFiles(grouped_files), TRUE)
    IN  AddKeyFiles(SubSeq(key_files, 1, IF Len(key_files) < 5 THEN Len(key_files) ELSE 5),
                    [sample |-> <<>>, total_tokens |-> 0, grouped_files |-> grouped_files])

\* The integer part of a * b / c for 0 <= a <= c, without forming a * b.
RECURSIVE MulDivRem(_, _, _)
MulDivRem(a, b, c) ==
    IF b = 0 THEN [q |-> 0, r |-> 0]
    ELSE LET h == MulDivRem(a, b \div 2, c)
             r == 2 * h.r + (b % 2) * a
         IN  [q |-> 2 * h.q + r \div c, r |-> r % c]

\* total_remaining, were the tokens of the key files not deducted.
TotalRemainingWhole(tokens) == MAX_TOKENS

\* total_remaining = self.MAX_TOKENS - total_tokens
TotalRemaining(tokens) == MAX_TOKENS - tokens

\* int((size / total_size) * total_remaining)
LangBudget(size, total_size, total_remaining) == MulDivRem(size, total_remaining, total_size).q

FilesSize(files) == SeqSum([i \in 1..Len(files) |-> files[i].size])

\* lang_sizes
LangSizes(grouped_files) ==
    [i \in 1..Len(grouped_files) |->
        [key |-> grouped_files[i].key, val |-> FilesSize(grouped_files[i].val)]]

\* lang_tokens
LangTokens(grouped_files, total_remaining) ==
    LET lang_sizes == LangSizes(grouped_files)
        total_size == SeqSum([i \in 1..Len(lang_sizes) |-> lang_sizes[i].val])
    IN  [i \in 1..Len(lang_sizes) |->
            [key |-> lang_sizes[i].key,
             val |-> IF total_size > 0
                     THEN LangBudget(lang_sizes[i].val, total_size, total_remaining)
                     ELSE 0]]

\* random.sample(population, k): k elements at different positions, in any order.
RandomSamples(population, k) ==
    {[i \in 1..k |-> population[pos[i]]] :
        pos \in {f \in [1..k -> 1..Len(population)] : \A i, j \in 1..k : f[i] = f[j] => i = j}}

\* The small, the medium and the large file of a sorted list of more than three.
SizeVariety(sorted_files) ==
    <<sorted_files[1], sorted_files[(Len(sorted_files) \div 2) + 1], sorted_files[Len(sorted_files)]>>

\* remaining_files, were the three files already picked left in it.
RemainingFilesAll(sorted_files) == sorted_files

\* remaining_files
RemainingFiles(sorted_files) ==
    SelectSeq(sorted_files, LAMBDA f : f \notin Range(SizeVariety(sorted_files)))

\* The values lang_sample can take for the files of one language.
LangSamples(files) ==
    LET sorted_files == SortBySize(files, FALSE)
    IN  IF Len(sorted_files) <= 3 THEN {sorted_files}
        ELSE LET remaining_files == RemainingFiles(sorted_files)
                 k == IF Len(remaining_files) < 2 THEN Len(remaining_files) ELSE 2
             IN  IF remaining_files # <<>>
                 THEN {SizeVariety(sorted_files) \o r : r \in RandomSamples(remaining_files, k)}
                 ELSE {SizeVariety(sorted_files)}

\* The loop that adds lang_sample to the sample within the budget of the
\* language.  acc is [sample, lang_token_count].
RECURSIVE AddLangSample(_, _, _, _)
AddLangSample(lang_sample, lang, budget, acc) ==
    IF lang_sample = <<>> THEN acc
    ELSE LET tokens == EstimateTokens(Head(lang_sample).size, lang)
         IN  AddLangSample(Tail(lang_sample), lang, budget,
                 IF acc.lang_token_count + tokens <= budget
                 THEN [sample |-> Append(acc.sample, Head(lang_sample)),
                       lang_token_count |-> acc.lang_token_count + tokens]
                 ELSE acc)

\* min(files, key=lambda x: len(x[1])): the first file of the least size.
SmallestFile(files) ==
    files[CHOOSE i \in 1..Len(files) :
              /\ \A j \in 1..Len(files) : files[i].size <= files[j].size
              /\ \A j \in 1..(i - 1) : files[j].size > files[i].size]

\* The fallback of _select_code_sample: the smallest file of the first
\* language that has files, nothing when no language has.
RECURSIVE FallbackSample(_)
FallbackSample(grouped_files) ==
    IF grouped_files = <<>> THEN <<>>
    ELSE IF Head(grouped_files).val # <<>> THEN <<SmallestFile(Head(grouped_files).val)>>
    ELSE FallbackSample(Tail(grouped_files))

\* The samples the second pass can leave, from the language at position i
\* on: one for each choice random.sample can make.
RECURSIVE SecondPass(_, _, _, _)
SecondPass(grouped_files, i, budgets, selected) ==
    IF i > Len(grouped_files) THEN {selected}
    ELSE LET lang == grouped_files[i].key
         IN  IF ~HasKey(budgets, lang) \/ DictGet(budgets, lang) <= 0
             THEN SecondPass(grouped_files, i + 1, budgets, selected)
             ELSE UNION {SecondPass(grouped_files, i + 1, budgets,
                                    AddLangSample(lang_sample, lang, DictGet(budgets, lang),
                                                  [sample |-> selected, lang_token_count |-> 0]).sample)
                         : lang_sample \in LangSamples(grouped_files[i].val)}

\* The samples _select_code_sample can return for grouped_files.
SelectCodeSample(grouped_files) ==
    LET st == KeyFilePass(grouped_files)
        budgets == LangTokens(st.grouped_files, TotalRemaining(st.total_tokens))
    IN  {IF selected = <<>> /\ st.grouped_files # <<>>
         THEN FallbackSample(st.grouped_files) ELSE selected
         : selected \in SecondPass(st.grouped_files, 1, budgets, st.sample)}

\* The code files of the repositories.
SelectPool ==
    {[path |-> "src/main.py", size |-> 120000],
     [path |-> "app.js", size |-> 400000],
     [path |-> "lib/big.py", size |-> 400000],
     [path |-> "lib/huge.js", size |-> 350000],
     [path |-> "a.py", size |-> 20000],
     [path |-> "b.py", size |-> 60000],
     [path |-> "c.py", size |-> 100000],
     [path |-> "d.py", size |-> 200000]}

\* The largest number of code files of a repository.
MaxSelectFiles == 5

\* The code files of the repositories with a key file that costs the whole
\* budget of MAX_TOKENS, and a key file of three characters.
FullBudgetPool ==
    {[path |-> "server.py", size |-> 320000],
     [path |-> "config.py", size |-> 3],
     [path |-> "a.py", size |-> 20000]}

\* n small files stem1.ext, stem2.ext, ... of 100, 200, ... characters.
SmallFiles(stem, ext, n) ==
    [i \in 1..n |-> [path |-> stem \o Decimal(i) \o ext, size |-> 100 * i]]

\* The largest number of key files, and of further files of one language,
\* of a repository of small files.
MaxKeyFiles == 5

MaxLangFiles == 3

\* The code files of the repositories of small files: key files, and
\* further files of two languages.
SmallRepositories ==
    {SmallFiles("api", ".py", k) \o SmallFiles("p", ".py", p) \o SmallFiles("j", ".js", j) :
        k \in 0..MaxKeyFiles, p \in 0..MaxLangFiles, j \in 0..MaxLangFiles}

SIdle ==
    /\ scode = <<>> /\ sgroups = <<>> /\ sample = <<>> /\ total_tokens = 0
    /\ lang_tokens = <<>> /\ next_lang = 0 /\ fallback = FALSE /\ spc = "idle"

\* process: grouped_files = self._group_files_by_language(code_files), and
\* _select_code_sample is entered.
SInit ==
    /\ scode \in FileLists(SelectPool, MaxSelectFiles)
                  \cup FileLists(FullBudgetPool, Cardinality(FullBudgetPool))
                  \cup SmallRepositories
    /\ sgroups = GroupFilesByLanguage(scode)
    /\ sample = <<>> /\ total_tokens = 0
    /\ lang_tokens = <<>> /\ next_lang = 0 /\ fallback = FALSE /\ spc = "keys"

\* The first pass: key files.
SKeyFiles ==
    /\ spc = "keys"
    /\ LET st == KeyFilePass(sgroups)
       IN  /\ sample' = st.sample
           /\ total_tokens' = st.total_tokens
           /\ sgroups' = st.grouped_files
    /\ spc' = "allocate"
    /\ UNCHANGED <<scode, lang_tokens, next_lang, fallback, notS>>

\* total_remaining, lang_sizes and lang_tokens.
SAllocate ==
    /\ spc = "allocate"
    /\ lang_tokens' = LangTokens(sgroups, TotalRemaining(total_tokens))
    /\ next_lang' = 1
    /\ spc' = "languages"
    /\ UNCHANGED <<scode, sgroups, sample, total_tokens, fallback, notS>>

\* One iteration of the second pass: the files of one language.
SLanguage ==
    /\ spc = "languages"
    /\ next_lang <= Len(sgroups)
    /\ LET lang == sgroups[next_lang].key
           files == sgroups[next_lang].val
       IN  IF ~HasKey(lang_tokens, lang) \/ DictGet(lang_tokens, lang) <= 0
           THEN UNCHANGED <<sample, total_tokens>>
           ELSE \E lang_sample \in LangSamples(files) :
                    LET acc == AddLangSample(lang_sample, lang, DictGet(lang_tokens, lang),
                                             [sample |-> sample, lang_token_count |-> 0])
                    IN  /\ sample' = acc.sample
                        /\ total_tokens' = total_tokens + acc.lang_token_count
    /\ next_lang' = next_lang + 1
    /\ UNCHANGED <<scode, sgroups, lang_tokens, fallback, spc, notS>>

\* The end of the second pass, the fallback, and the return.
SReturn ==
    /\ spc = "languages"
    /\ next_lang > Len(sgroups)
    /\ IF sample = <<>> /\ sgroups # <<>>
       THEN sample' = FallbackSample(sgroups) /\ fallback' = TRUE
       ELSE UNCHANGED <<sample, fallback>>
    /\ spc' = "done"
    /\ UNCHANGED <<scode, sgroups, total_tokens, lang_tokens, next_lang, notS>>

SNext == SKeyFiles \/ SAllocate \/ SLanguage \/ SReturn

-----------------------------------------------------------------------------
(* CodeQuality: the truncation of the sample.  A content is the sequence of
   the pieces between its newlines ("" is <<"">>); the contents have no line
   boundary but the newline. *)

MAX_LINES_PER_FILE == 300

\* content.splitlines(): the pieces, without the last one when it is empty.
Splitlines(content) ==
    IF content[Len(content)] = "" THEN SubSeq(content, 1, Len(content) - 1) ELSE content

\* "\n".join(lines), the lines holding no newline
JoinLines(lines) == IF lines = <<>> THEN <<"">> ELSE lines

\* a + b of two contents: the last piece of a runs on into the first of b.
Concat(a, b) ==
    SubSeq(a, 1, Len(a) - 1) \o <<a[Len(a)] \o b[1]>> \o SubSeq(b, 2, Len(b))

\* lines[i:j] for 0 <= i
ListSlice(lines, i, j) ==
    SubSeq(lines, i + 1, IF j < Len(lines) THEN j ELSE Len(lines))

\* f"\n\n// ... [Truncated {n} lines] ...\n\n"
TruncatedLinesComment(n) == <<"", "", "// ... [Truncated " \o Decimal(n) \o " lines] ...", "", "">>

\* f"\n\n// ... [Truncated] ...\n\n"
TruncatedComment == <<"", "", "// ... [Truncated] ...", "", "">>

\* The content of one file, were only its first MAX_LINES_PER_FILE lines kept.
TruncateContentHead(content) ==
    IF Len(Splitlines(content)) > MAX_LINES_PER_FILE
    THEN JoinLines(ListSlice(Splitlines(content), 0, MAX_LINES_PER_FILE))
    ELSE content

\* The content _truncate_sample keeps for one file.
TruncateContent(content) ==
    LET lines == Splitlines(content)
        line_count == Len(lines)
        third == MAX_LINES_PER_FILE \div 3
        first_chunk == ListSlice(lines, 0, third)
        last_chunk == ListSlice(lines, line_count - third, line_count)
        middle_start == (line_count \div 2) - (MAX_LINES_PER_FILE \div 6)
        middle_end == middle_start + third
        middle_chunk == ListSlice(lines, middle_start, middle_end)
    IN  IF line_count > MAX_LINES_PER_FILE
        THEN Concat(Concat(Concat(Concat(JoinLines(first_chunk),
                                         TruncatedLinesComment(line_count - MAX_LINES_PER_FILE)),
                                  JoinLines(middle_chunk)),
                           TruncatedComment),
                    JoinLines(last_chunk))
        ELSE content

\* _truncate_sample
TruncateSample(smp) ==
    [i \in 1..Len(smp) |-> [path |-> smp[i].path, content |-> TruncateContent(smp[i].content)]]

\* How far the line counts of the contents lie from MAX_LINES_PER_FILE.
MaxExtraLines == 6

\* The largest number of files of a sample.
MaxTruncFiles == 2

\* How many times _truncate_sample is applied at most.
MaxTruncations == 2

\* The content of n numbered lines, the last ended by a newline or not.
NumberedLines(n, newline) ==
    [i \in 1..n |-> "line " \o Decimal(i)] \o (IF newline \/ n = 0 THEN <<"">> ELSE <<>>)

\* The contents of the files: empty, or of about MAX_LINES_PER_FILE lines.
TruncContents ==
    {NumberedLines(n, newline) :
        n \in {0} \cup ((MAX_LINES_PER_FILE - MaxExtraLines)..(MAX_LINES_PER_FILE + MaxExtraLines)),
        newline \in BOOLEAN}

TruncPaths == <<"src/main.py", "lib/util.js", "contract.rs">>

TIdle == tsample = <<>> /\ truncations = 0

\* process: _truncate_sample is entered with the sample.
TInit ==
    /\ \E k \in 0..MaxTruncFiles : \E contents \in [1..k -> TruncContents] :
           tsample = [i \in 1..k |-> [path |-> TruncPaths[i], content |-> contents[i]]]
    /\ truncations = 0

\* sample = self._truncate_sample(sample)
TTruncate ==
    /\ truncations < MaxTruncations
    /\ tsample' = TruncateSample(tsample)
    /\ truncations' = truncations + 1
    /\ UNCHANGED notT

TNext == TTruncate

-----------------------------------------------------------------------------
(* BoilerplateDetector: the signature sets of the NEAR SDKs and of the     *)
(* frameworks.                                                             *)
(*                                                                         *)
(* A regular expression of a signature set is a sequence of elements: a    *)
(* choice of literal texts, '.*', '\w+', '.' or '\b'.  None of them        *)
(* matches a line break, so an expression is searched in one line at a     *)
(* time.                                                                   *)

ReLit(text) == [t |-> "lit", alts |-> {text}]
ReAlt(texts) == [t |-> "lit", alts |-> texts]
ReAny == [t |-> "any", alts |-> {}]
ReWord == [t |-> "word", alts |-> {}]
ReDot == [t |-> "dot", alts |-> {}]
ReBoundary == [t |-> "boundary", alts |-> {}]

\* The positions (characters consumed) the element e can reach from p.
ReStep(e, line, p) ==
    CASE e.t = "lit" -> {p + Len(a) : a \in {a \in e.alts : Slice(line, p, p + Len(a)) = a}}
      [] e.t = "any" -> p..Len(line)
      [] e.t = "word" -> {q \in (p + 1)..Len(line) :
                            \A k \in p..(q - 1) : CharAt(line, k) \in WordChars}
      [] e.t = "dot" -> IF p < Len(line) THEN {p + 1} ELSE {}
      [] e.t = "boundary" ->
            IF (p >= 1 /\ CharAt(line, p - 1) \in WordChars) # (CharAt(line, p) \in WordChars)
            THEN {p} ELSE {}

RECURSIVE ReEnds(_, _, _)
ReEnds(regex, line, starts) ==
    IF regex = <<>> THEN starts
    ELSE ReEnds(Tail(regex), line, UNION {ReStep(Head(regex), line, p) : p \in starts})

\* re.search(regex, line) is not None, for a text of one line
ReSearch(regex, line) == ReEnds(regex, line, 0..Len(line)) # {}

\* any(re.search(pattern, content) for pattern in patterns)
ReAnySearch(patterns, content) ==
    \E k \in 1..Len(patterns) : \E i \in 1..Len(content) : ReSearch(patterns[k], content[i])

\* self.near_sdk_patterns of _init_patterns, in the order of the dict
near_sdk_patterns ==
    <<
       [key |-> "near-api-js", val |->
         [
          file_patterns |->
             << <<ReLit("node_modules/near-api-js/")>>,
                <<ReLit("src/near-api-js/")>>,
                <<ReLit("lib/near-api-js/")>> >>,
          import_patterns |->
             << <<ReLit("import"), ReAny, ReLit("from "), ReAlt(Quotes), ReLit("near-api-js"), ReAlt(Quotes)>>,
                <<ReLit("require("), ReAlt(Quotes), ReLit("near-api-js"), ReAlt(Quotes), ReLit(")")>> >>,
          content_patterns |->
             << <<ReLit("class NearAPI")>>,
                <<ReLit("class Near"), ReBoundary>>,
                <<ReLit("class Connection"), ReBoundary>>,
                <<ReLit("class Account"), ReBoundary>>,
                <<ReLit("class Contract"), ReBoundary>>,
                <<ReLit("class WalletConnection"), ReBoundary>> >>]],
       [key |-> "near-sdk-rs", val |->
         [
          file_patterns |->
             << <<ReLit("near-sdk/")>>,
                <<ReLit("near-sdk-rs/")>>,
                <<ReLit("near_sdk/")>> >>,
          import_patterns |->
             << <<ReLit("use near_sdk::")>>,
                <<ReLit("use near_sdk as")>>,
                <<ReLit("extern crate near_sdk")>> >>,
          content_patterns |->
             << <<ReLit("#[near(")>>,
                <<ReLit("#[derive(BorshDeserialize, BorshSerialize)]")>>,
                <<ReLit("#[derive(Near")>>,
                <<ReLit("pub struct Contract {")>> >>]],
       [key |-> "near-sdk-as", val |->
         [
          file_patterns |->
             << <<ReLit("node_modules/near-sdk-as/")>>,
                <<ReLit("src/near-sdk-as/")>>,
                <<ReLit("lib/near-sdk-as/")>> >>,
          import_patterns |->
             << <<ReLit("import {"), ReAny, ReLit("} from "), ReAlt(Quotes), ReLit("near-sdk-as"), ReAlt(Quotes)>> >>,
          content_patterns |->
             << <<ReLit("@nearBindgen")>>,
                <<ReLit("export class "), ReWord, ReLit(" implements Contract")>> >>]]
    >>

\* self.framework_patterns of _init_patterns, in the order of the dict
framework_patterns ==
    <<
       [key |-> "react", val |->
         [
          file_patterns |->
             << <<ReLit("node_modules/react/")>>,
                <<ReLit("node_modules/react-dom/")>> >>,
          import_patterns |->
             << <<ReLit("import React")>>,
                <<ReLit("import * as React")>>,
                <<ReLit("import { useState, useEffect")>>,
                <<ReLit("import ReactDOM")>> >>,
          content_patterns |->
             << <<ReLit("class "), ReWord, ReLit(" extends React.Component")>>,
                <<ReLit("const "), ReWord, ReLit(" = () => {")>>,
                <<ReLit("function "), ReWord, ReLit("() {"), ReAny, ReLit("return (")>>,
                <<ReLit("<React"), ReDot, ReLit("Fragment>")>>,
                <<ReLit("<>"), ReAny, ReLit("</>")>>,
                <<ReLit("useState(")>>,
                <<ReLit("useEffect(")>> >>]],
       [key |-> "vue", val |->
         [
          file_patterns |->
             << <<ReLit("node_modules/vue/")>> >>,
          import_patterns |->
             << <<ReLit("import Vue")>>,
                <<ReLit("import * as Vue")>>,
                <<ReLit("import { ref, computed")>> >>,
          content_patterns |->
             << <<ReLit("new Vue({")>>,
                <<ReLit("export default {")>>,
                <<ReLit("<template>")>>,
                <<ReLit("<script>")>>,
                <<ReLit("components: {")>> >>]],
       [key |-> "angular", val |->
         [
          file_patterns |->
             << <<ReLit("node_modules/@angular/")>> >>,
          import_patterns |->
             << <<ReLit("import { Component")>>,
                <<ReLit("import { NgModule")>> >>,
          content_patterns |->
             << <<ReLit("@Component({")>>,
                <<ReLit("@NgModule({")>>,
                <<ReLit("selector: "), ReAlt(Quotes), ReLit("app-")>>,
                <<ReLit("templateUrl: ")>> >>]],
       [key |-> "express", val |->
         [
          file_patterns |->
             << <<ReLit("node_modules/express/")>> >>,
          import_patterns |->
             << <<ReLit("import express")>>,
                <<ReLit("require("), ReAlt(Quotes), ReLit("express"), ReAlt(Quotes), ReLit(")")>> >>,
          content_patterns |->
             << <<ReLit("const app = express()")>>,
                <<ReLit("app.get("), ReAlt(Quotes)>>,
                <<ReLit("app.post("), ReAlt(Quotes)>>,
                <<ReLit("app.use(")>>,
                <<ReLit("app.listen(")>> >>]],
       [key |-> "nextjs", val |->
         [
          file_patterns |->
             << <<ReLit("node_modules/next/")>>,
                <<ReLit(".next/")>> >>,
          import_patterns |->
             << <<ReLit("import {"), ReAny, ReLit("} from "), ReAlt(Quotes), ReLit("next")>>,
                <<ReLit("import next")>> >>,
          content_patterns |->
             << <<ReLit("export default function")>>,
                <<ReLit("getStaticProps")>>,
                <<ReLit("getServerSideProps")>>,
                <<ReLit("export async function getStaticPaths")>> >>]]
    >>

\* The entry _detect_near_sdk and _detect_frameworks compute for one file
\* and one signature set.
SignatureMatch(patterns, file) ==
    [file_path |-> file.path,
     path_match |-> ReAnySearch(patterns.file_patterns, <<file.path>>),
     import_match |-> ReAnySearch(patterns.import_patterns, file.content),
     content_match |-> ReAnySearch(patterns.content_patterns, file.content)]

\* if path_match or import_match or content_match
IsMatchPathOnly(match) == match.path_match

IsMatch(match) == match.path_match \/ match.import_match \/ match.content_match

\* The result of one signature set: the loop over the files, in their order.
DetectSignature(patterns, files) ==
    LET matches == SelectSeq([i \in 1..Len(files) |-> SignatureMatch(patterns, files[i])], IsMatch)
    IN  [detected |-> Len(matches) > 0,
         match_count |-> Len(matches),
         files |-> [i \in 1..Len(matches) |-> matches[i].file_path],
         matches |-> ListSlice(matches, 0, 10)]

\* _detect_near_sdk(files)
DetectNearSdk(files) ==
    [k \in 1..Len(near_sdk_patterns) |->
        [key |-> near_sdk_patterns[k].key,
         val |-> DetectSignature(near_sdk_patterns[k].val, files)]]

\* _detect_frameworks(files)
DetectFrameworks(files) ==
    [k \in 1..Len(framework_patterns) |->
        [key |-> framework_patterns[k].key,
         val |-> DetectSignature(framework_patterns[k].val, files)]]

\* The files of the repositories detect() is run on: a list of files of
\* DetectPool followed by the components of a React/Next.js front end.
DetectPool ==
    { [path |-> "node_modules/near-api-js/lib/index.js", content |-> <<"module.exports = {}">>],
      [path |-> "src/wallet.js",
       content |-> <<"const nearAPI = require('near-api-js')", "const app = express()">>],
      [path |-> "contract/src/lib.rs",
       content |-> <<"use near_sdk::near;", "#[near(contract_state)]", "pub struct Contract {">>],
      [path |-> "src/near.js", content |-> <<"export class Near {", "}">>],
      [path |-> "assembly/index.ts",
       content |-> <<"import { storage } from \"near-sdk-as\"", "@nearBindgen",
                     "export class Token implements Contract">>],
      [path |-> "pages/index.js",
       content |-> <<"import { useRouter } from 'next/router'",
                     "export async function getStaticProps() {">>] }

MaxDetectFiles == 2

MaxComponents == 11

Component(i) ==
    [path |-> "src/components/C" \o Decimal(i) \o ".jsx",
     content |-> <<"import React from 'react'",
                   "export default function C" \o Decimal(i) \o "() {">>]

Components(n) == [i \in 1..n |-> Component(i)]

BIdle == bfiles = <<>> /\ bpc = "idle" /\ near_sdk = <<>> /\ frameworks = <<>>

BInit ==
    /\ bfiles \in {q \o Components(n) : q \in FileLists(DetectPool, MaxDetectFiles),
                                         n \in 0..MaxComponents}
    /\ bpc = "start"
    /\ near_sdk = <<>>
    /\ frameworks = <<>>

\* results['near_sdk'] = self._detect_near_sdk(files)
BNearSdk ==
    /\ bpc = "start"
    /\ near_sdk' = DetectNearSdk(bfiles)
    /\ bpc' = "near_sdk"
    /\ UNCHANGED <<bfiles, frameworks, notB>>

\* results['frameworks'] = self._detect_frameworks(files)
BFrameworks ==
    /\ bpc = "near_sdk"
    /\ frameworks' = DetectFrameworks(bfiles)
    /\ bpc' = "frameworks"
    /\ UNCHANGED <<bfiles, near_sdk, notB>>

BNext == BNearSdk \/ BFrameworks

-----------------------------------------------------------------------------
(* RepoAnalyzer: analyze().  The results of the git, boilerplate and AST
   analyses and the summaries are not represented; asteps records that the
   steps ran.  Each run iterates its sets in an order of its own: the order
   of a set of str follows the hash seed of the process. *)

\* The test 'if not files', were it never to succeed.
NoFilesNever(files) == FALSE

\* if not files
NoFiles(files) == files = <<>>

\* The result of analyze() for an empty repository.
EmptyRepositoryResult == [error |-> "Repository is empty", file_count |-> 0]

\* [file_path for file_path, _ in category_files]
FilePaths(category_files) == [i \in 1..Len(category_files) |-> category_files[i].path]

\* The dict 'results' of analyze(), of its keys file_count, categorized_files
\* and dependency_analysis.
AnalysisResults(files, categorized_files, important_files) ==
    [file_count |-> Len(files),
     categorized_files |->
         [category \in DOMAIN categorized_files |-> FilePaths(categorized_files[category])],
     dependency_analysis |->
         [important_files |->
             SubSeq(important_files, 1,
                    IF Len(important_files) < 20 THEN Len(important_files) ELSE 20)]]

\* analyze_dependencies(files)['important_files'], the set all_nodes
\* iterated in the order 'order'.
ImportantFiles(files, order) ==
    IdentifyImportantFiles(CalculateCentrality(BuildDependencyGraph(files), order))

\* The files of the repositories.
AnalyzePool ==
    {[path |-> "a.py", content |-> <<"import b", "import c">>],
     [path |-> "b.py", content |-> <<"">>],
     [path |-> "c.py", content |-> <<"import missing">>],
     [path |-> "src/main.js", content |-> <<"import { u } from './utils'", "const fs = require('fs')">>],
     [path |-> "src/utils.js", content |-> <<"">>],
     [path |-> "README.md", content |-> <<"import b">>],
     [path |-> "LICENSE", content |-> <<"MIT License">>],
     [path |-> "contract.rs", content |-> <<"#[near(">>]}

\* The largest number of files of a repository.
MaxAnalyzeFiles == 3

\* How many times analyze() is run on the repository.
MaxRuns == 2

\* detect(files), were it to return before the frameworks are looked for.
DetectSdkOnly(files) == [near_sdk |-> DetectNearSdk(files), frameworks |-> <<>>]

\* detect(files), of its keys near_sdk and frameworks
Detect(files) == [near_sdk |-> DetectNearSdk(files), frameworks |-> DetectFrameworks(files)]

\* boilerplate_analysis before detect() has run.
NoBoilerplateAnalysis == [near_sdk |-> <<>>, frameworks |-> <<>>]

\* The entries of a dict of detection results whose 'detected' is true.
DetectedEntries(results) == SelectSeq(results, LAMBDA entry : entry.val.detected)

\* _create_file_summary: the list 'technologies'
Technologies(boilerplate_analysis) ==
    LET sdks == DetectedEntries(boilerplate_analysis.near_sdk)
        fws == DetectedEntries(boilerplate_analysis.frameworks)
    IN  [k \in 1..Len(sdks) |-> "NEAR SDK: " \o sdks[k].key]
            \o [k \in 1..Len(fws) |-> "Framework: " \o fws[k].key]

\* _create_file_summary, of its keys file_count and technologies
CreateFileSummary(category_files, boilerplate_analysis) ==
    [file_count |-> Len(category_files),
     technologies |-> Technologies(boilerplate_analysis)]

\* results['file_summaries']: a summary for each category that has files
FileSummaries(categorized_files, boilerplate_analysis) ==
    [category \in {c \in DOMAIN categorized_files : categorized_files[c] # <<>>} |->
        CreateFileSummary(categorized_files[category], boilerplate_analysis)]

AIdle ==
    /\ afiles = <<>> /\ apc = "idle" /\ asteps = <<>>
    /\ acategorized = EmptyCategories(<<>>) /\ aimportant = <<>> /\ areturned = <<>>
    /\ aboilerplate = NoBoilerplateAnalysis /\ asummaries = <<>>

AInit ==
    /\ afiles \in FileLists(AnalyzePool, MaxAnalyzeFiles)
    /\ apc = "start" /\ asteps = <<>>
    /\ acategorized = EmptyCategories(<<>>) /\ aimportant = <<>> /\ areturned = <<>>
    /\ aboilerplate = NoBoilerplateAnalysis /\ asummaries = <<>>

\* A run begins: files = list(self.repo_provider.get_files())
ACollect ==
    /\ apc = "start"
    /\ Len(areturned) < MaxRuns
    /\ apc' = "collected"
    /\ asteps' = <<>>
    /\ acategorized' = EmptyCategories(<<>>)
    /\ aimportant' = <<>>
    /\ aboilerplate' = NoBoilerplateAnalysis
    /\ asummaries' = <<>>
    /\ UNCHANGED <<afiles, areturned, notA>>

\* if not files: return {'error': 'Repository is empty', 'file_count': 0}
AEmpty ==
    /\ apc = "collected"
    /\ NoFiles(afiles)
    /\ areturned' = Append(areturned, EmptyRepositoryResult)
    /\ apc' = "start"
    /\ UNCHANGED <<afiles, asteps, acategorized, aimportant, aboilerplate, asummaries, notA>>

\* git_analysis = self.git_analyzer.analyze()
AGit ==
    /\ apc = "collected"
    /\ ~NoFiles(afiles)
    /\ asteps' = Append(asteps, "git_analysis")
    /\ apc' = "git"
    /\ UNCHANGED <<afiles, acategorized, aimportant, areturned, aboilerplate, asummaries, notA>>

\* boilerplate_analysis = self.boilerplate_detector.detect(files)
ABoilerplate ==
    /\ apc = "git"
    /\ asteps' = Append(asteps, "boilerplate_analysis")
    /\ apc' = "boilerplate"
    /\ aboilerplate' = Detect(afiles)
    /\ UNCHANGED <<afiles, acategorized, aimportant, areturned, asummaries, notA>>

\* categorized_files = self.file_categorizer.categorize_files(files)
ACategorize ==
    /\ apc = "boilerplate"
    /\ acategorized' = CategorizeFiles(afiles)
    /\ asteps' = Append(asteps, "categorized_files")
    /\ apc' = "categorized"
    /\ UNCHANGED <<afiles, aimportant, areturned, aboilerplate, asummaries, notA>>

\* dependency_analysis = self.dependency_analyzer.analyze_dependencies(files)
ADependencies ==
    /\ apc = "categorized"
    /\ \E order \in Orders(AllNodes(BuildDependencyGraph(afiles))) :
           aimportant' = ImportantFiles(afiles, order)
    /\ asteps' = Append(asteps, "dependency_analysis")
    /\ apc' = "dependencies"
    /\ UNCHANGED <<afiles, acategorized, areturned, aboilerplate, asummaries, notA>>

\* ast_analysis = self.ast_analyzer.analyze_files(files)
AAst ==
    /\ apc = "dependencies"
    /\ asteps' = Append(asteps, "ast_analysis")
    /\ apc' = "ast"
    /\ UNCHANGED <<afiles, acategorized, aimportant, areturned, aboilerplate, asummaries, notA>>

\* results, its file summaries and summary, and the return
AReturn ==
    /\ apc = "ast"
    /\ asteps' = Append(asteps, "summaries")
    /\ areturned' = Append(areturned, AnalysisResults(afiles, acategorized, aimportant))
    /\ asummaries' = FileSummaries(acategorized, aboilerplate)
    /\ apc' = "start"
    /\ UNCHANGED <<afiles, acategorized, aimportant, aboilerplate, notA>>

ANext ==
    \/ ACollect \/ AEmpty \/ AGit \/ ABoilerplate
    \/ ACategorize \/ ADependencies \/ AAst \/ AReturn

-----------------------------------------------------------------------------
(* CodeQuality: _extract_results.  A value of the response is             *)
(* [kind, int, str]: None, an int, a float (held in tenths) or a str.      *)

PyNone == [kind |-> "None", int |-> 0, str |-> ""]
PyInt(n) == [kind |-> "int", int |-> n, str |-> ""]
PyFloat(tenths) == [kind |-> "float", int |-> tenths, str |-> ""]
PyStr(text) == [kind |-> "str", int |-> 0, str |-> text]

\* The value of a str of decimal digits
RECURSIVE DigitsValue(_)
DigitsValue(s) ==
    IF s = "" THEN 0
    ELSE 10 * DigitsValue(Slice(s, 0, Len(s) - 1))
             + (CHOOSE d \in 0..9 : Digits[d + 1] = CharAt(s, Len(s) - 1))

\* int(s) of a str without underscores: blanks around it ignored, an
\* optional sign, then decimal digits; ValueError otherwise.
IntOfStr(s) ==
    LET t == Strip(s)
        body == IF CharAt(t, 0) \in {"+", "-"} THEN Slice(t, 1, Len(t)) ELSE t
    IN  IF body # "" /\ \A i \in 0..(Len(body) - 1) : CharAt(body, i) \in Range(Digits)
        THEN [raises |-> "",
              val |-> IF CharAt(t, 0) = "-" THEN 0 - DigitsValue(body) ELSE DigitsValue(body)]
        ELSE [raises |-> "ValueError", val |-> 0]

\* int(v): an int is itself, a float is cut towards zero, a str is parsed,
\* and None raises TypeError.
IntOf(v) ==
    CASE v.kind = "int" -> [raises |-> "", val |-> v.int]
      [] v.kind = "float" ->
            [raises |-> "", val |-> IF v.int >= 0 THEN v.int \div 10 ELSE 0 - ((0 - v.int) \div 10)]
      [] v.kind = "str" -> IntOfStr(v.str)
      [] v.kind = "None" -> [raises |-> "TypeError", val |-> 0]

\* except (KeyError, ValueError)
Caught(exception) == exception \in {"KeyError", "ValueError"}

\* _extract_results(analysis): [raises, score, feedback], raises naming the
\* exception that leaves the call ("" when it returns).
ExtractResults(analysis, max_points) ==
    LET converted == IntOf(IF HasKey(analysis, "score") THEN DictGet(analysis, "score")
                           ELSE PyInt(0))
        bounded == IF converted.val < max_points THEN converted.val ELSE max_points
    IN  IF converted.raises = ""
        THEN [raises |-> "",
              score |-> IF bounded > 0 THEN bounded ELSE 0,
              feedback |-> IF HasKey(analysis, "feedback") THEN DictGet(analysis, "feedback")
                           ELSE PyStr("No feedback provided.")]
        ELSE IF Caught(converted.raises)
        THEN [raises |-> "", score |-> 0,
              feedback |-> PyStr("Error processing code quality analysis.")]
        ELSE [raises |-> converted.raises, score |-> 0, feedback |-> PyNone]

\* The largest max_points of a category.
MaxPoints == 3

\* The values of 'score' in the responses of the scorer.
Scores ==
    {PyInt(n) : n \in (0 - 2)..(MaxPoints + 2)}
        \cup {PyStr(t) : t \in {"2", " 3 ", "-1", "+12", "invalid", "", "2.5", "2 points"}}
        \cup {PyFloat(t) : t \in {0 - 15, 5, 25, 10 * MaxPoints + 9}}
        \cup {PyNone}

\* The values of 'feedback' in the responses of the scorer.
Feedbacks == {PyStr("Good code quality with minor issues."), PyStr(""), PyNone}

\* The responses of the scorer: dicts with or without 'score' and 'feedback'.
Responses ==
    {score \o feedback : score \in {<<>>} \cup {<<[key |-> "score", val |-> v]>> : v \in Scores},
                         feedback \in {<<>>} \cup {<<[key |-> "feedback", val |-> v]>> : v \in Feedbacks}}

NoResult == [raises |-> "", score |-> 0, feedback |-> PyNone]

XIdle == xanalysis = <<>> /\ xmax_points = 0 /\ xpc = "idle" /\ xresult = NoResult

XInit ==
    /\ xanalysis \in Responses
    /\ xmax_points \in 0..MaxPoints
    /\ xpc = "start"
    /\ xresult = NoResult

\* score, feedback = self._extract_results(analysis)
XExtract ==
    /\ xpc = "start"
    /\ xresult' = ExtractResults(xanalysis, xmax_points)
    /\ xpc' = "done"
    /\ UNCHANGED <<xanalysis, xmax_points, notX>>

XNext == XExtract

-----------------------------------------------------------------------------
(* CategoryRegistry and CategoryPluginLoader.  The registry is the         *)
(* singleton 'registry' the loader works on; the disk holds the plugin     *)
(* files (TOML) and the prompt files of the two plugin directories.  A     *)
(* class is known by its name, a metadata argument is None or a dict.      *)

\* The ids of the categories.
CategoryIds == {"code_quality", "security"}

\* The classes register is called with: a subclass of BaseCategory, and a
\* class that is none.
CategoryClasses == {"DynamicCategory", "object"}

\* issubclass(category_class, BaseCategory)
IsCategoryClass(category_class) == category_class = "DynamicCategory"

\* The argument 'metadata' of register: None, or the metadata of a plugin.
MetadataOf(id) == [kind |-> "dict", dict |-> <<[key |-> "id", val |-> id]>>]

NoMetadata == [kind |-> "None", dict |-> <<>>]

\* metadata or {}
MetadataOrEmpty(metadata) == IF metadata.kind = "None" THEN <<>> ELSE metadata.dict

\* del d[k]
DictDel(d, k) == SelectSeq(d, LAMBDA entry : entry.key # k)

\* The registry after construction, and after clear().
EmptyRegistry == [categories |-> <<>>, metadata |-> <<>>]

\* register, of a subclass of BaseCategory
Register(reg, category_id, category_class, metadata) ==
    [categories |-> DictSet(reg.categories, category_id, category_class),
     metadata |-> DictSet(reg.metadata, category_id, MetadataOrEmpty(metadata))]

\* unregister of a registered id, were the metadata left behind.
UnregisterClassOnly(reg, category_id) ==
    [categories |-> DictDel(reg.categories, category_id), metadata |-> reg.metadata]

\* unregister of a registered id: the two del statements
Unregister(reg, category_id) ==
    [categories |-> DictDel(reg.categories, category_id),
     metadata |-> DictDel(reg.metadata, category_id)]

\* get_category: self._categories.get(category_id)
GetCategory(classes, category_id) ==
    IF HasKey(classes, category_id) THEN DictGet(classes, category_id) ELSE "None"

\* get_metadata: self._category_metadata.get(category_id, {})
GetMetadata(metadata, category_id) ==
    IF HasKey(metadata, category_id) THEN DictGet(metadata, category_id) ELSE <<>>

\* list_categories: list(self._categories.keys())
ListCategories(classes) == DictKeys(classes)

\* self.plugins_dir and its subdirectory 'categories'
PluginsDir == "plugins"

CategoriesDir == "plugins/categories"

\* The plugin files the disk can hold.
PluginPool ==
    {[dir |-> CategoriesDir, filename |-> "code_quality.toml", id |-> "code_quality",
      prompt_file |-> "prompts/code_quality.md"],
     [dir |-> CategoriesDir, filename |-> "code_quality_v2.toml", id |-> "code_quality",
      prompt_file |-> "prompts/code_quality.md"],
     [dir |-> PluginsDir, filename |-> "quality.toml", id |-> "code_quality",
      prompt_file |-> "prompts/code_quality.md"],
     [dir |-> CategoriesDir, filename |-> "security.toml", id |-> "security",
      prompt_file |-> "prompts/security.md"]}

\* The prompt file a plugin file names, in the directory of the plugin file.
PromptOf(plugin) == [dir |-> plugin.dir, filename |-> plugin.prompt_file]

\* The prompt files the disk can hold.
PromptPool == {PromptOf(plugin) : plugin \in PluginPool}

\* The valid plugin files install_plugin is called with, their prompt file
\* beside them: they are installed under their own name.
PluginPacks == {plugin \in PluginPool : plugin.dir = CategoriesDir}

\* No call made yet.
NoCall == [op |-> "", id |-> "", class |-> "", value |-> ""]

PIdle ==
    /\ rcategories = <<>> /\ rmetadata = <<>> /\ rresult = NoCall
    /\ ptomls = {} /\ pprompts = {}

\* The registry as constructed, and the plugin directories as found.
PInit ==
    /\ rcategories = EmptyRegistry.categories
    /\ rmetadata = EmptyRegistry.metadata
    /\ rresult = NoCall
    /\ ptomls \in SUBSET PluginPool
    /\ pprompts \in SUBSET PromptPool

\* registry.register(category_id, category_class, metadata)
RRegister ==
    \E category_id \in CategoryIds, category_class \in CategoryClasses :
      \E metadata \in {NoMetadata, MetadataOf(category_id)} :
        /\ IF ~IsCategoryClass(category_class)
           THEN /\ rresult' = [op |-> "register", id |-> category_id,
                               class |-> category_class, value |-> "TypeError"]
                /\ UNCHANGED <<rcategories, rmetadata>>
           ELSE LET reg == Register([categories |-> rcategories, metadata |-> rmetadata],
                                    category_id, category_class, metadata)
                IN  /\ rcategories' = reg.categories
                    /\ rmetadata' = reg.metadata
                    /\ rresult' = [op |-> "register", id |-> category_id,
                                   class |-> category_class, value |-> "None"]
        /\ UNCHANGED <<ptomls, pprompts, notP>>

\* registry.unregister(category_id)
RUnregister ==
    \E category_id \in CategoryIds :
        /\ IF HasKey(rcategories, category_id)
           THEN LET reg == Unregister([categories |-> rcategories, metadata |-> rmetadata],
                                      category_id)
                IN  /\ rcategories' = reg.categories
                    /\ rmetadata' = reg.metadata
                    /\ rresult' = [op |-> "unregister", id |-> category_id,
                                   class |-> "", value |-> "True"]
           ELSE /\ rresult' = [op |-> "unregister", id |-> category_id,
                               class |-> "", value |-> "False"]
                /\ UNCHANGED <<rcategories, rmetadata>>
        /\ UNCHANGED <<ptomls, pprompts, notP>>

\* registry.clear()
RClear ==
    /\ rcategories' = EmptyRegistry.categories
    /\ rmetadata' = EmptyRegistry.metadata
    /\ rresult' = [op |-> "clear", id |-> "", class |-> "", value |-> "None"]
    /\ UNCHANGED <<ptomls, pprompts, notP>>

\* loader.load_plugin(plugin_path), of a plugin file on disk: the file is
\* valid when its prompt file is beside it.
PLoadPlugin ==
    \E plugin \in ptomls :
        /\ IF PromptOf(plugin) \in pprompts
           THEN LET reg == Register([categories |-> rcategories, metadata |-> rmetadata],
                                    plugin.id, "DynamicCategory", MetadataOf(plugin.id))
                IN  /\ rcategories' = reg.categories
                    /\ rmetadata' = reg.metadata
                    /\ rresult' = [op |-> "load_plugin", id |-> plugin.id,
                                   class |-> "DynamicCategory", value |-> plugin.id]
           ELSE /\ rresult' = [op |-> "load_plugin", id |-> plugin.id,
                               class |-> "", value |-> "None"]
                /\ UNCHANGED <<rcategories, rmetadata>>
        /\ UNCHANGED <<ptomls, pprompts, notP>>

\* loader.install_plugin(plugin_file_path): the prompt file and the plugin
\* file are written to the subdirectory 'categories'; nothing is registered.
PInstallPlugin ==
    \E pack \in PluginPacks :
        /\ pprompts' = pprompts \cup {PromptOf(pack)}
        /\ ptomls' = ptomls \cup {pack}
        /\ rresult' = [op |-> "install_plugin", id |-> pack.id, class |-> "", value |-> pack.id]
        /\ UNCHANGED <<rcategories, rmetadata, notP>>

\* The plugin files uninstall_plugin can find for plugin_id: those of the
\* first of the two directories that has one, os.listdir giving them in any
\* order.
FoundPlugins(tomls, plugin_id) ==
    LET in_dir(d) == {plugin \in tomls : plugin.dir = d /\ plugin.id = plugin_id}
    IN  IF in_dir(PluginsDir) # {} THEN in_dir(PluginsDir) ELSE in_dir(CategoriesDir)

\* loader.uninstall_plugin(plugin_id)
PUninstallPlugin ==
    \E plugin_id \in CategoryIds :
        /\ IF FoundPlugins(ptomls, plugin_id) = {}
           THEN /\ rresult' = [op |-> "uninstall_plugin", id |-> plugin_id,
                               class |-> "", value |-> "False"]
                /\ UNCHANGED <<rcategories, rmetadata, ptomls, pprompts>>
           ELSE \E plugin \in FoundPlugins(ptomls, plugin_id) :
                    /\ ptomls' = ptomls \ {plugin}
                    /\ pprompts' = pprompts \ {PromptOf(plugin)}
                    /\ IF HasKey(rcategories, plugin_id)
                       THEN LET reg == Unregister([categories |-> rcategories,
                                                   metadata |-> rmetadata], plugin_id)
                            IN  /\ rcategories' = reg.categories
                                /\ rmetadata' = reg.metadata
                                /\ rresult' = [op |-> "uninstall_plugin", id |-> plugin_id,
                                               class |-> "", value |-> "True"]
                       ELSE /\ rresult' = [op |-> "uninstall_plugin", id |-> plugin_id,
                                           class |-> "", value |-> "False"]
                            /\ UNCHANGED <<rcategories, rmetadata>>
        /\ UNCHANGED notP

PNext ==
    \/ RRegister \/ RUnregister \/ RClear
    \/ PLoadPlugin \/ PInstallPlugin \/ PUninstallPlugin

-----------------------------------------------------------------------------
(* Specifications: one per component, the other components idle *)

InitGraph == GInit /\ FIdle /\ SIdle /\ TIdle /\ AIdle /\ BIdle /\ XIdle /\ PIdle

SpecGraph == InitGraph /\ [][GNext]_vars

InitDeps == DInit /\ FIdle /\ SIdle /\ TIdle /\ AIdle /\ BIdle /\ XIdle /\ PIdle

SpecDeps == InitDeps /\ [][DNext]_vars

InitFiles == FInit /\ GIdle /\ SIdle /\ TIdle /\ AIdle /\ BIdle /\ XIdle /\ PIdle

SpecFiles == InitFiles /\ [][FNext]_vars

InitSelect == SInit /\ GIdle /\ FIdle /\ TIdle /\ AIdle /\ BIdle /\ XIdle /\ PIdle

SpecSelect == InitSelect /\ [][SNext]_vars

InitTruncate == TInit /\ GIdle /\ FIdle /\ SIdle /\ AIdle /\ BIdle /\ XIdle /\ PIdle

SpecTruncate == InitTruncate /\ [][TNext]_vars

InitAnalyze == AInit /\ GIdle /\ FIdle /\ SIdle /\ TIdle /\ BIdle /\ XIdle /\ PIdle

SpecAnalyze == InitAnalyze /\ [][ANext]_vars

InitDetect == BInit /\ GIdle /\ FIdle /\ SIdle /\ TIdle /\ AIdle /\ XIdle /\ PIdle

SpecDetect == InitDetect /\ [][BNext]_vars

InitExtract == XInit /\ GIdle /\ FIdle /\ SIdle /\ TIdle /\ AIdle /\ BIdle /\ PIdle

SpecExtract == InitExtract /\ [][XNext]_vars

InitPlugins == PInit /\ GIdle /\ FIdle /\ SIdle /\ TIdle /\ AIdle /\ BIdle /\ XIdle

SpecPlugins == InitPlugins /\ [][PNext]_vars

-----------------------------------------------------------------------------
(* Claims about the classifier and the categorizer *)

\* C6: every label get_file_classification has returned is one of
\* 'boilerplate', 'third-party' and 'custom'; it is 'boilerplate' whenever
\* is_boilerplate_file holds of the file, also under a third-party directory;
\* it is 'third-party' only when is_boilerplate_file is false and
\* is_third_party_file holds; it is 'custom' only when neither holds.
C6_ClassificationPrecedence ==
    \A i \in 1..Len(labels) :
        labels[i] # "unset" =>
            LET boiler == IsBoilerplateFile(cfiles[i].path, cfiles[i].content)
                third == IsThirdPartyFile(cfiles[i].path)
            IN  /\ labels[i] \in {"boilerplate", "third-party", "custom"}
                /\ boiler => labels[i] = "boilerplate"
                /\ labels[i] = "third-party" => ~boiler /\ third
                /\ labels[i] = "custom" => ~boiler /\ ~third

\* A boilerplate file under a third-party directory has been classified, and
\* so has a file that is third-party only and one that is neither.
C6_Witness ==
    /\ \E i \in 1..Len(labels) :
           /\ labels[i] = "boilerplate"
           /\ IsThirdPartyFile(cfiles[i].path)
    /\ \E i \in 1..Len(labels) : labels[i] \in {"third-party", "custom"}

\* The files of category 'cat' whose extension is not in its extension set.
OtherExtension(cat) ==
    {i \in 1..Len(categories[cat]) :
        FileExt(categories[cat][i].path) \notin RuleCategories[cat].extensions}

\* C7 as stated: categorize_files places no file in a rule-based category
\* whose extension is not in the extension set of the category.
C7_ExtensionMandatory ==
    cpc = "categorized" => \A cat \in DOMAIN RuleCategories : OtherExtension(cat) = {}

\* C7, amended: a file categorize_files places in a rule-based category
\* without its extension being in the extension set of the category has a
\* base name that is one of the file names the category lists; its path and
\* its content alone never place it there.
C7_ExtensionOrListedName ==
    cpc = "categorized" =>
        \A cat \in DOMAIN RuleCategories : \A i \in OtherExtension(cat) :
            Basename(categories[cat][i].path) \in RuleCategories[cat].filenames

\* categorize_files has returned: it kept a file out of a category whose
\* content patterns the file matches, its extension not being listed, and
\* it placed a file of an unlisted extension in the category listing its name.
C7_Witness ==
    /\ cpc = "categorized"
    /\ \E i \in 1..Len(cfiles) : \E cat \in DOMAIN RuleCategories :
           /\ FileExt(cfiles[i].path) \notin RuleCategories[cat].extensions
           /\ AnySearchContent(RuleCategories[cat].content_patterns, cfiles[i].content)
           /\ cfiles[i] \notin Range(categories[cat])
    /\ \E cat \in DOMAIN RuleCategories : OtherExtension(cat) # {}

\* The texts the exclude patterns of a category look for in a path.
ExcludedTexts ==
    [near_protocol_integration |-> {},
     onchain_quality |-> {},
     offchain_quality |-> {"contract/", "contracts/", "node_modules/", ".test.", ".spec."},
     code_quality_documentation |-> {},
     technical_innovation |-> {".test.", ".spec.", "test/", "tests/", "__tests__/"}]

ExcludedPath(cat, file_path) == \E t \in ExcludedTexts[cat] : Contains(file_path, t)

\* C15: a file whose path matches an exclude pattern of offchain_quality or
\* of technical_innovation is no member of that category in the result of
\* categorize_files, whatever its content; and the membership of a file in
\* a category depends on the rules of that category alone, so that the
\* exclusion from one category changes no other category.
C15_ExcludedByPath ==
    cpc = "categorized" =>
        \A i \in 1..Len(cfiles) : \A cat \in DOMAIN RuleCategories :
            LET file == cfiles[i]
            IN  /\ ExcludedPath(cat, file.path) => file \notin Range(categories[cat])
                /\ file \in Range(categories[cat]) <=>
                       /\ MatchesCategory(file.path, Basename(file.path), FileExt(file.path),
                                          file.content, RuleCategories[cat])
                       /\ ~ExcludedPath(cat, file.path)

\* categorize_files has returned; a file that the rules of offchain_quality
\* match by its content is excluded from it by its path and is a member of
\* technical_innovation, and a file excluded from technical_innovation is a
\* member of offchain_quality or of code_quality_documentation.
C15_Witness ==
    /\ cpc = "categorized"
    /\ \E i \in 1..Len(cfiles) :
          /\ ExcludedPath("offchain_quality", cfiles[i].path)
          /\ FileExt(cfiles[i].path) \in offchain_quality_patterns.extensions
          /\ AnySearchContent(offchain_quality_patterns.content_patterns, cfiles[i].content)
          /\ cfiles[i] \notin Range(categories.offchain_quality)
          /\ cfiles[i] \in Range(categories.technical_innovation)
    /\ \E i \in 1..Len(cfiles) :
          /\ ExcludedPath("technical_innovation", cfiles[i].path)
          /\ MatchesCategory(cfiles[i].path, Basename(cfiles[i].path), FileExt(cfiles[i].path),
                             cfiles[i].content, technical_innovation_patterns)
          /\ cfiles[i] \notin Range(categories.technical_innovation)
          /\ cfiles[i] \in Range(categories.code_quality_documentation)

-----------------------------------------------------------------------------
(* Claims about the detection of SDKs and frameworks *)

\* The paths of the files, in input order, that one of the three pattern
\* families of a signature set matches.
RECURSIVE MatchedPaths(_, _)
MatchedPaths(patterns, files) ==
    IF files = <<>> THEN <<>>
    ELSE LET file == Head(files)
             hit == \/ ReAnySearch(patterns.file_patterns, <<file.path>>)
                    \/ ReAnySearch(patterns.import_patterns, file.content)
                    \/ ReAnySearch(patterns.content_patterns, file.content)
         IN  (IF hit THEN <<file.path>> ELSE <<>>) \o MatchedPaths(patterns, Tail(files))

\* The results detected so far, and the signature sets they were detected with.
Detections ==
    {<<near_sdk[k].val, near_sdk_patterns[k]>> : k \in 1..Len(near_sdk)}
        \cup {<<frameworks[k].val, framework_patterns[k]>> : k \in 1..Len(frameworks)}

\* C14: for each SDK or framework signature set, 'files' is exactly the
\* input files, in input order, that at least one of the three pattern
\* families matches; 'detected' holds iff that list is not empty;
\* 'match_count' is the length of that list, whatever the cap of 10 entries
\* on 'matches'; each signature set is decided on its own patterns only, and
\* every known signature set has its result.
C14_DetectionPerSignature ==
    /\ bpc \in {"near_sdk", "frameworks"} => DictKeys(near_sdk) = DictKeys(near_sdk_patterns)
    /\ bpc = "frameworks" => DictKeys(frameworks) = DictKeys(framework_patterns)
    /\ \A d \in Detections :
          /\ d[1].files = MatchedPaths(d[2].val, bfiles)
          /\ d[1].detected <=> d[1].files # <<>>
          /\ d[1].match_count = Len(d[1].files)
          /\ Len(d[1].matches) = IF d[1].match_count > 10 THEN 10 ELSE d[1].match_count

\* Both steps of the detection made; more than 10 files match React, only
\* 10 of them listed in 'matches'; one file is listed for two signature
\* sets; one file matched by its path alone and one by a content pattern alone.
C14_Witness ==
    /\ bpc = "frameworks"
    /\ DictGet(frameworks, "react").match_count > 10
    /\ Len(DictGet(frameworks, "react").matches) = 10
    /\ \E p \in Range(DictGet(frameworks, "react").files) :
          p \in Range(DictGet(frameworks, "nextjs").files)
    /\ \E d \in Detections : \E i \in 1..Len(d[1].matches) :
          LET m == d[1].matches[i] IN m.path_match /\ ~m.import_match /\ ~m.content_match
    /\ \E d \in Detections : \E i \in 1..Len(d[1].matches) :
          LET m == d[1].matches[i] IN ~m.path_match /\ ~m.import_match /\ m.content_match
    /\ \E d \in Detections : ~d[1].detected

-----------------------------------------------------------------------------
(* Claims about the selection of the code sample *)

\* The language of a file: its extension in lower case, without the dot.
LangOf(path) == Slice(FileExt(path), 1, Len(FileExt(path)))

\* The sum of the estimated token costs of a list of files.
SampleCost(files) ==
    SeqSum([i \in 1..Len(files) |-> EstimateTokens(files[i].size, LangOf(files[i].path))])

\* The candidates: the files of all language groups.
RECURSIVE Candidates(_)
Candidates(groups) ==
    IF groups = <<>> THEN {} ELSE Range(Head(groups).val) \cup Candidates(Tail(groups))

\* C1: the estimated token costs of the files _select_code_sample has
\* selected sum to MAX_TOKENS at most, at every point of the selection and
\* in its result, unless the sample is the single file of the fallback.
C1_BudgetRespected ==
    IF fallback THEN Len(sample) = 1 ELSE SampleCost(sample) <= MAX_TOKENS

\* The selection has returned without the fallback a sample of a key file and
\* of files of the second pass, having left out a candidate that would have
\* exceeded the budget.
C1_Witness ==
    /\ spc = "done" /\ ~fallback
    /\ \E i, j \in 1..Len(sample) : IsKeyFile(sample[i].path) /\ ~IsKeyFile(sample[j].path)
    /\ \E f \in Range(scode) :
           /\ f \notin Range(sample)
           /\ SampleCost(sample) + EstimateTokens(f.size, LangOf(f.path)) > MAX_TOKENS
           /\ EstimateTokens(f.size, LangOf(f.path)) <= MAX_TOKENS

\* C8: when there are candidates and the two passes have selected nothing,
\* _select_code_sample returns exactly one file, and no candidate of any
\* language is smaller than it; it returns the empty sample only when there
\* is no candidate.
C8_FallbackGlobalSmallest ==
    spc = "done" =>
        /\ fallback =>
               /\ Len(sample) = 1
               /\ \A f \in Candidates(sgroups) : sample[1].size <= f.size
        /\ sample = <<>> => Candidates(sgroups) = {}

\* The estimated token cost of one file.
FileCost(f) == EstimateTokens(f.size, LangOf(f.path))

\* C12: when the cost of at least one candidate fits MAX_TOKENS,
\* _select_code_sample returns a sample that is not empty, was not filled by
\* the fallback, and holds only files whose own cost fits MAX_TOKENS.
C12_FittingCandidateSelected ==
    spc = "done" /\ (\E f \in Range(scode) : FileCost(f) <= MAX_TOKENS) =>
        /\ sample # <<>>
        /\ ~fallback
        /\ \A i \in 1..Len(sample) : FileCost(sample[i]) <= MAX_TOKENS

\* The estimated tokens of the first n files of the sample.
RECURSIVE SampleCostUpTo(_)
SampleCostUpTo(n) == IF n = 0 THEN 0 ELSE SampleCostUpTo(n - 1) + FileCost(sample[n])

\* C16: once the consumed-token total has reached the budget no further
\* file is added to the sample: no file of the sample comes behind files
\* whose estimated tokens already make up MAX_TOKENS, whatever its own
\* estimated cost (the sample grows at its end only, and the total by the
\* cost of each file added).
C16_NoFileOnceBudgetReached ==
    \A i \in 2..Len(sample) : SampleCostUpTo(i - 1) < MAX_TOKENS

\* C18: the selection is deterministic: every invocation of
\* _select_code_sample on the grouped files of the repository returns the
\* sequence of files this invocation has returned, also when a language
\* group has more than three files and the budget does not cover them all.
C18_SelectionDeterministic ==
    spc = "done" => SelectCodeSample(GroupFilesByLanguage(scode)) = {sample}

\* C19: the sample _select_code_sample returns holds at most 10 files,
\* whatever the number of language groups and of files.
C19_AtMostTenFiles == spc = "done" => Len(sample) <= 10

-----------------------------------------------------------------------------
(* Claims about the truncation of the sample *)

\* C5: a sample _truncate_sample has returned is left unchanged by
\* _truncate_sample, and none of its contents has more than
\* MAX_LINES_PER_FILE lines.
C5_TruncationIdempotent ==
    truncations >= 1 =>
        /\ TruncateSample(tsample) = tsample
        /\ \A i \in 1..Len(tsample) : Len(Splitlines(tsample[i].content)) <= MAX_LINES_PER_FILE

-----------------------------------------------------------------------------
(* Claims about analyze() *)

\* C9: on a repository without files, every run of analyze() returns the
\* result {file_count: 0, error: 'Repository is empty'}, and executes none
\* of the downstream steps.
C9_EmptyRepositoryShortCircuit ==
    afiles = <<>> =>
        /\ asteps = <<>>
        /\ apc \in {"start", "collected"}
        /\ \A i \in 1..Len(areturned) : areturned[i] = EmptyRepositoryResult

\* analyze() has returned on a repository without files.
C9_Witness == afiles = <<>> /\ areturned # <<>> /\ apc = "start"

\* C4: the runs of analyze() on the same files return the same
\* categorized_files and the same important files in the same order, the
\* files of equal centrality included.
C4_RunsAgree ==
    afiles # <<>> =>
        \A i, j \in 1..Len(areturned) :
            /\ areturned[i].categorized_files = areturned[j].categorized_files
            /\ areturned[i].dependency_analysis.important_files =
                   areturned[j].dependency_analysis.important_files

\* C17: the analysis is memoized per RepoAnalyzer instance: once a call of
\* analyze() has returned, no later call on the instance collects the files
\* or executes the boilerplate detection, the categorization or the
\* dependency analysis again (a later call is at none of these positions),
\* and every call returns what the first call returned.
C17_AnalyzedOnce ==
    areturned # <<>> =>
        /\ apc = "start"
        /\ \A i \in 1..Len(areturned) : areturned[i] = areturned[1]

-----------------------------------------------------------------------------
(* Claims about _extract_results *)

\* The value of 'score' in the response, when the response has one.
GivenScore == DictGet(xanalysis, "score")

\* The feedback the response carries, or the default of a response without.
GivenFeedback ==
    IF HasKey(xanalysis, "feedback") THEN DictGet(xanalysis, "feedback")
    ELSE PyStr("No feedback provided.")

\* C20: for every response of the scorer _extract_results returns, without
\* raising, a pair (score, feedback) with 0 <= score <= max_points: an
\* integer score is clamped into that range and the feedback passed
\* through, a missing score yields 0 with the given feedback, and a score
\* that is a non-numeric string or null yields 0 with the fixed error
\* feedback.
C20_ExtractResultsTotal ==
    xpc = "done" =>
        /\ xresult.raises = ""
        /\ 0 <= xresult.score /\ xresult.score <= xmax_points
        /\ ~HasKey(xanalysis, "score") =>
               xresult.score = 0 /\ xresult.feedback = GivenFeedback
        /\ HasKey(xanalysis, "score") /\ GivenScore.kind = "int" =>
               /\ xresult.feedback = GivenFeedback
               /\ xresult.score = IF GivenScore.int < 0 THEN 0
                                  ELSE IF GivenScore.int > xmax_points THEN xmax_points
                                  ELSE GivenScore.int
        /\ HasKey(xanalysis, "score") /\ GivenScore \in {PyNone, PyStr("invalid"), PyStr("")} =>
               /\ xresult.score = 0
               /\ xresult.feedback = PyStr("Error processing code quality analysis.")

-----------------------------------------------------------------------------
(* Further claims about the centrality *)

\* The graph with the edge (a, b) added: graph[a].add(b)
WithEdge(g, a, b) == DictSet(g, a, OwnDeps(g, a) \cup {b})

\* The score of a node, 0 for a node absent from the score mapping.
ScoreOf(c, node) == IF HasKey(c, node) THEN DictGet(c, node) ELSE 0

\* C21: the centrality is monotone in the incoming edges: with one edge
\* (a, b) added that the graph does not hold, the score of b is at least
\* its score before (0 for a node without score), and the score of no
\* other node decreases.
C21_CentralityMonotone ==
    gpc \in {"scored", "ranked"} =>
        \A a, b \in GraphNodes :
            b \notin OwnDeps(graph, a) =>
                \A order \in Orders(AllNodes(WithEdge(graph, a, b))) :
                    \A node \in GraphNodes :
                        ScoreOf(CalculateCentrality(WithEdge(graph, a, b), order), node)
                            >= ScoreOf(centrality, node)

\* _calculate_centrality has scored a graph in which a node that has a
\* score lacks an edge from a node that is no key, and another lacks an
\* edge from a key.
C21_Witness ==
    /\ gpc = "scored"
    /\ \E a, b \in GraphNodes :
          ~HasKey(graph, a) /\ ScoreOf(centrality, b) > 0 /\ ScoreOf(centrality, a) > 0
    /\ \E a, b \in GraphNodes :
          HasKey(graph, a) /\ b \notin OwnDeps(graph, a) /\ ScoreOf(centrality, b) > 0

-----------------------------------------------------------------------------
(* Further claims about the dependency graph *)

\* The paths a relative import of 'importing_file' names: the resolved
\* path, the resolved path with a supported extension, and the index file
\* of the resolved directory.
RelativeTargets(imported_module, importing_file) ==
    LET resolved_path == Normpath(PathJoin(Dirname(importing_file), imported_module))
    IN  {resolved_path}
            \cup {resolved_path \o ext : ext \in {".js", ".jsx", ".ts", ".tsx", ".py", ".rs"}}
            \cup {resolved_path \o "/index" \o ext : ext \in {".js", ".jsx", ".ts", ".tsx"}}

\* The relative imports of the i-th file, a file with a supported extension.
RelativeImports(fs, i) ==
    IF FileExt(fs[i].path) \in ImportExts
    THEN {m \in ExtractImports(fs[i].content, FileExt(fs[i].path)) :
             StartsWith(m, "./") \/ StartsWith(m, "../")}
    ELSE {}

\* C22: a relative import ('./x' or '../x') of a supported file produces an
\* edge to an input file whenever the input files hold its target: the
\* path resolved against the directory of the importing file, that path
\* with a supported extension appended, or index.<ext> in the resolved
\* directory.
C22_RelativeImportResolved ==
    gpc \in {"graph", "scored", "ranked"} /\ dfiles # <<>> =>
        \A i \in 1..Len(dfiles) : \A m \in RelativeImports(dfiles, i) :
            LET present == RelativeTargets(m, dfiles[i].path) \cap Paths(dfiles)
            IN  present # {} => OwnDeps(graph, dfiles[i].path) \cap present # {}

\* The dotted imports of the i-th file that are no built-in modules.
DottedImports(fs, i) ==
    IF FileExt(fs[i].path) \in {".py", ".pyw"}
    THEN {m \in ExtractImports(fs[i].content, FileExt(fs[i].path)) :
             Contains(m, ".") /\ ~StartsWith(m, ".")}
    ELSE {}

\* C23: a dotted Python import 'a.b' that is no built-in module produces an
\* edge to an input file whenever the input files hold a/b.py or
\* a/b/__init__.py: to one of the two, and to a/b/__init__.py when a/b.py
\* is absent.
C23_DottedImportResolved ==
    gpc \in {"graph", "scored", "ranked"} /\ dfiles # <<>> =>
        \A i \in 1..Len(dfiles) : \A m \in DottedImports(dfiles, i) :
            LET path_form == Replace(m, ".", "/")
                present == {path_form \o ".py", path_form \o "/__init__.py"}
                               \cap Paths(dfiles)
            IN  present # {} => OwnDeps(graph, dfiles[i].path) \cap present # {}


\* The module identifier of a path.
ModuleOf(file_path) == ExtractModuleName(file_path, FileExt(file_path))

\* The last file of the input that derives the module identifier 'name'.
LastOfModule(fs, name) ==
    fs[CHOOSE i \in 1..Len(fs) :
           /\ ModuleOf(fs[i].path) = name
           /\ \A j \in (i + 1)..Len(fs) : ModuleOf(fs[j].path) # name].path

\* The module identifier through which the import m of the i-th file
\* resolves, as a sequence of none or one.
ResolvedThrough(fs, i, m) ==
    FirstKey(ResolveCandidates(m, fs[i].path), FileByModule(fs, <<>>))

\* C28: when several input files derive one module identifier, the module
\* index keeps the one that comes last in the input, and every import that
\* resolves through the identifier yields an edge to that last file, the
\* importing file getting no edge to another file of the identifier.
C28_LastFileOfModuleWins ==
    gpc \in {"graph", "scored", "ranked"} /\ dfiles # <<>> =>
        \A i \in 1..Len(dfiles) :
            FileExt(dfiles[i].path) \in ImportExts =>
                \A m \in ExtractImports(dfiles[i].content, FileExt(dfiles[i].path)) :
                    LET through == ResolvedThrough(dfiles, i, m)
                    IN  through # <<>> =>
                            /\ LastOfModule(dfiles, through[1]) \in OwnDeps(graph, dfiles[i].path)
                            /\ \A j \in 1..Len(dfiles) :
                                   /\ ModuleOf(dfiles[j].path) = through[1]
                                   /\ dfiles[j].path # LastOfModule(dfiles, through[1])
                                   => dfiles[j].path \notin OwnDeps(graph, dfiles[i].path)

\* The graph is built from files of which two derive one module identifier,
\* the earlier of the two is no target, and an import of a third file has
\* produced an edge to the later one.
C28_Witness ==
    /\ gpc = "graph"
    /\ \E i, j, k \in 1..Len(dfiles) :
          /\ j < k
          /\ i # j /\ i # k
          /\ ModuleOf(dfiles[j].path) = ModuleOf(dfiles[k].path)
          /\ dfiles[k].path \in OwnDeps(graph, dfiles[i].path)
          /\ dfiles[j].path \notin OwnDeps(graph, dfiles[i].path)


-----------------------------------------------------------------------------
(* Further claims about analyze() *)

\* The paths of the files a detection matched, by the name the detection
\* has in a list 'technologies'.
MatchedBy(boilerplate_analysis) ==
    {<<"NEAR SDK: " \o boilerplate_analysis.near_sdk[k].key,
       Range(boilerplate_analysis.near_sdk[k].val.files)>> :
          k \in 1..Len(boilerplate_analysis.near_sdk)}
      \cup {<<"Framework: " \o boilerplate_analysis.frameworks[k].key,
               Range(boilerplate_analysis.frameworks[k].val.files)>> :
                  k \in 1..Len(boilerplate_analysis.frameworks)}

\* C24: in the summary of each category, 'technologies' names an SDK or a
\* framework only if one of the files that detection matched is a file of
\* the category.
C24_TechnologiesOfCategory ==
    \A category \in DOMAIN asummaries :
        \A d \in MatchedBy(aboilerplate) :
            d[1] \in Range(asummaries[category].technologies) =>
                d[2] \cap Paths(acategorized[category]) # {}


\* The steps of a run the description names, in the order it names them.
\* The dependency analysis builds the graph and then ranks the centrality.
NamedSteps ==
    <<"boilerplate_analysis", "categorized_files", "dependency_analysis", "summaries">>

\* The steps of NamedSteps among the steps made, in the order they were made.
NamedStepsOf(steps) == SelectSeq(steps, LAMBDA step : step \in Range(NamedSteps))

\* C25: in a run of analyze() on files, the steps are made one at a time,
\* after the files are collected and in the order detection, categorization,
\* dependency analysis, summaries; and when the summaries are assembled the
\* detection has a result for every signature set, the categorization is
\* that of the collected files, and the summaries are computed from these.
C25_StepsInOrder ==
    [][asteps' # asteps /\ asteps' # <<>> =>
          /\ apc # "start" /\ afiles # <<>>
          /\ Len(asteps') = Len(asteps) + 1
          /\ SubSeq(asteps', 1, Len(asteps)) = asteps
          /\ NamedStepsOf(asteps') = SubSeq(NamedSteps, 1, Len(NamedStepsOf(asteps')))
          /\ asteps'[Len(asteps')] = "summaries" =>
                /\ DictKeys(aboilerplate.near_sdk) = DictKeys(near_sdk_patterns)
                /\ DictKeys(aboilerplate.frameworks) = DictKeys(framework_patterns)
                /\ acategorized = CategorizeFiles(afiles)
                /\ \E order \in Orders(AllNodes(BuildDependencyGraph(afiles))) :
                       aimportant = ImportantFiles(afiles, order)
                /\ asummaries' = FileSummaries(acategorized, aboilerplate)
                /\ areturned' = Append(areturned, AnalysisResults(afiles, acategorized, aimportant))]_vars

\* A run on files has returned: every step made, a technology detected,
\* an import resolved, and summaries of more than one category.
C25_Witness ==
    /\ apc = "start" /\ afiles # <<>> /\ areturned # <<>>
    /\ NamedStepsOf(asteps) = NamedSteps
    /\ Len(asteps) > Len(NamedSteps)
    /\ \E category \in DOMAIN asummaries : asummaries[category].technologies # <<>>
    /\ aimportant # <<>>
    /\ Cardinality(DOMAIN asummaries) > 1


-----------------------------------------------------------------------------
(* Further claims about the truncation *)

\* The lines of 'lines' from the 0-based position 'start' up to 'stop', exclusive.
LinesFromTo(lines, start, stop) == [k \in 1..(stop - start) |-> lines[start + k]]

\* Whether 'kept' is what the description keeps of a content of the lines
\* 'lines', more than MAX_LINES_PER_FILE of them: a third of
\* MAX_LINES_PER_FILE lines from the head, from the middle and from the
\* tail, the three ranges disjoint and in order, a marker between them.
KeepsThreeRanges(lines, kept) ==
    LET n == Len(lines)
        third == MAX_LINES_PER_FILE \div 3
    IN  \E start \in third..(n - 2 * third) :
            Splitlines(kept) =
                LinesFromTo(lines, 0, third)
                    \o <<"", "// ... [Truncated " \o Decimal(n - MAX_LINES_PER_FILE) \o " lines] ...", "">>
                    \o LinesFromTo(lines, start, start + third)
                    \o <<"", "// ... [Truncated] ...", "">>
                    \o LinesFromTo(lines, n - third, n)

\* C26: _truncate_sample returns the files of the sample, in their order
\* and with their paths; a content of at most MAX_LINES_PER_FILE lines
\* unchanged; of a longer content the first third of MAX_LINES_PER_FILE
\* lines, a marker, as many lines from the middle, a marker, and as many
\* last lines, the three ranges disjoint and in the order of the content.
C26_TruncationKeepsThreeRanges ==
    [][truncations' # truncations =>
          /\ Len(tsample') = Len(tsample)
          /\ \A i \in 1..Len(tsample) :
                /\ tsample'[i].path = tsample[i].path
                /\ IF Len(Splitlines(tsample[i].content)) <= MAX_LINES_PER_FILE
                   THEN tsample'[i].content = tsample[i].content
                   ELSE KeepsThreeRanges(Splitlines(tsample[i].content), tsample'[i].content)]_vars

\* A sample truncated once: a file of more than MAX_LINES_PER_FILE lines
\* cut to three ranges and two markers, beside a file left as it was.
C26_Witness ==
    /\ truncations = 1
    /\ Len(tsample) = 2
    /\ Len(Splitlines(tsample[1].content)) = MAX_LINES_PER_FILE
    /\ Len(Splitlines(tsample[2].content)) = 3 * (MAX_LINES_PER_FILE \div 3) + 6
    /\ tsample[2].content[(MAX_LINES_PER_FILE \div 3) + 2] = "// ... [Truncated 5 lines] ..."


-----------------------------------------------------------------------------
(* Further claims about the selection *)

\* The paths of a list of files [path, size], in the order of the list.
PathList(files) == [i \in 1..Len(files) |-> files[i].path]

\* No element occurs twice in the sequence q.
Distinct(q) == \A i, j \in 1..Len(q) : q[i] = q[j] => i = j

\* The files left in the language groups.
GroupedPaths == UNION {Paths(sgroups[i].val) : i \in 1..Len(sgroups)}

\* C27: the paths of the code files being pairwise distinct, no path
\* occurs twice in the sample, at any point of _select_code_sample and in
\* the sample it returns; a key file the first pass has added is no longer
\* in its language group, and the files drawn at random for a language are
\* none of its smallest, median and largest file.
C27_SampleWithoutDuplicates ==
    Distinct(PathList(scode)) =>
        /\ Distinct(PathList(sample))
        /\ spc = "allocate" => Paths(sample) \cap GroupedPaths = {}
        /\ \A i \in 1..Len(sgroups) : \A lang_sample \in LangSamples(sgroups[i].val) :
               Distinct(PathList(lang_sample))

\* A sample returned with a key file of the first pass and, of a language
\* of more than three files, the smallest and the median file and a file
\* drawn at random.
C27_Witness ==
    /\ spc = "done" /\ ~fallback
    /\ Len(sample) >= 4
    /\ IsKeyFile(sample[1].path)
    /\ \E i \in 1..Len(sgroups) :
          /\ Len(sgroups[i].val) > 3
          /\ \E f \in Range(RemainingFiles(SortBySize(sgroups[i].val, FALSE))) : f \in Range(sample)


-----------------------------------------------------------------------------
(* Claims about the registry and the plugin loader *)

\* The ids with a registered class are the ids with stored metadata, and
\* get_category gives a class for the ids of list_categories and no other.
RegistryConsistent ==
    /\ Range(DictKeys(rcategories)) = Range(DictKeys(rmetadata))
    /\ \A category_id \in CategoryIds :
          GetCategory(rcategories, category_id) # "None"
              <=> category_id \in Range(ListCategories(rcategories))

\* C29: whatever calls have been made, the ids with a registered class are
\* the ids with stored metadata, and get_category is not None for the ids
\* of list_categories and for no other; a call of unregister returns True
\* if and only if the id was registered before the call, and leaves the id
\* unregistered; a call of register with a class that is no subclass of
\* BaseCategory raises and leaves the registry as it was.
C29_RegistryConsistent ==
    /\ []RegistryConsistent
    /\ [][/\ rresult'.op = "unregister" =>
                /\ rresult'.value = "True" <=> HasKey(rcategories, rresult'.id)
                /\ rresult'.value \in {"True", "False"}
                /\ ~HasKey(rcategories', rresult'.id)
                /\ ~HasKey(rmetadata', rresult'.id)
          /\ rresult'.op = "register" /\ ~IsCategoryClass(rresult'.class) =>
                /\ rresult'.value = "TypeError"
                /\ UNCHANGED <<rcategories, rmetadata>>
          /\ rresult'.op = "register" /\ IsCategoryClass(rresult'.class) =>
                /\ rresult'.value = "None"
                /\ GetCategory(rcategories', rresult'.id) = rresult'.class]_vars

\* An id is registered with its metadata and another is not, the last call
\* an unregister that returned True or a register that raised.
C29_Witness ==
    /\ rcategories # <<>>
    /\ \/ rresult.op = "unregister" /\ rresult.value = "True"
       \/ rresult.op = "register" /\ rresult.value = "TypeError"
    /\ Range(ListCategories(rcategories)) # CategoryIds
    /\ \E category_id \in CategoryIds : GetMetadata(rmetadata, category_id) # <<>>


\* The plugin files of the id on disk, and the prompt files they name.
PluginFilesOf(tomls, plugin_id) == {plugin \in tomls : plugin.id = plugin_id}

PromptFilesOf(tomls, prompts, plugin_id) ==
    {PromptOf(plugin) : plugin \in PluginFilesOf(tomls, plugin_id)} \cap prompts

\* C30: a call of uninstall_plugin that returns False has left on disk the
\* plugin files of the id and their prompt files, and has left the
\* registry as it was; a call that returns True has removed a plugin file
\* of the id and has left the id unregistered.
C30_UninstallAllOrNothing ==
    [][rresult'.op = "uninstall_plugin" =>
          /\ rresult'.value = "False" =>
                /\ PluginFilesOf(ptomls, rresult'.id) \subseteq ptomls'
                /\ PromptFilesOf(ptomls, pprompts, rresult'.id) \subseteq pprompts'
                /\ UNCHANGED <<rcategories, rmetadata>>
          /\ rresult'.value = "True" =>
                /\ PluginFilesOf(ptomls, rresult'.id) \ ptomls' # {}
                /\ ~HasKey(rcategories', rresult'.id)]_vars

=============================================================================
